---- MODULE Spec2Model ----
(***************************************************************************)
(* rhf-sync-url: the useSyncUrl hook (src/src/index.ts), which keeps a     *)
(* react-hook-form store and the URL query string in sync.                 *)
(*                                                                         *)
(* Strings are sequences of one-character strings, so that parsing,        *)
(* serialising and the canonical query string are computed, not assumed.   *)
(* JavaScript values are tagged records.  Objects (the form values, the    *)
(* restored values) are sequences of <<key, value>> entries with distinct  *)
(* keys, because Object.entries and URLSearchParams are ordered.           *)
(***************************************************************************)
EXTENDS Integers, Sequences, FiniteSets, TLC

(***************************************************************************)
(* Characters and strings                                                  *)
(***************************************************************************)
Digits == <<"0", "1", "2", "3", "4", "5", "6", "7", "8", "9">>

DigitChars == {Digits[i] : i \in 1..Len(Digits)}

LowerCase ==
  <<"a", "b", "c", "d", "e", "f", "g", "h", "i", "j", "k", "l", "m",
    "n", "o", "p", "q", "r", "s", "t", "u", "v", "w", "x", "y", "z">>

UpperCase ==
  <<"A", "B", "C", "D", "E", "F", "G", "H", "I", "J", "K", "L", "M",
    "N", "O", "P", "Q", "R", "S", "T", "U", "V", "W", "X", "Y", "Z">>

Letters ==
  {LowerCase[i] : i \in 1..Len(LowerCase)}
    \cup {UpperCase[i] : i \in 1..Len(UpperCase)}

Quote == "\""
Backslash == "\\"

\* The punctuation of JSON texts (with the sign and the point of numbers), and
\* the underscore of identifiers.
Punctuation == {Quote, "{", "}", "[", "]", ":", ",", "_", "-", "+", "."}

\* The characters the strings of the model's inputs are made of.  A backslash
\* arises only where JSON.stringify escapes a quote or a backslash.
Alphabet == Letters \cup DigitChars \cup Punctuation

\* String.prototype.toLowerCase, one character.
ToLowerChar(c) ==
  IF \E i \in 1..Len(UpperCase) : UpperCase[i] = c
  THEN LowerCase[CHOOSE i \in 1..Len(UpperCase) : UpperCase[i] = c]
  ELSE c

\* String.prototype.toLowerCase
ToLowerCase(s) == [i \in 1..Len(s) |-> ToLowerChar(s[i])]

\* String.prototype.includes
Includes(s, part) ==
  \E i \in 1..(Len(s) - Len(part) + 1) :
    SubSeq(s, i, i + Len(part) - 1) = part

DigitValue(c) == CHOOSE d \in 0..9 : Digits[d + 1] = c

RECURSIVE DecimalValue(_)
DecimalValue(s) ==
  IF s = <<>> THEN 0
  ELSE 10 * DecimalValue(SubSeq(s, 1, Len(s) - 1)) + DigitValue(s[Len(s)])

S_true == <<"t", "r", "u", "e">>
S_false == <<"f", "a", "l", "s", "e">>
S_null == <<"n", "u", "l", "l">>
S_undefined == <<"u", "n", "d", "e", "f", "i", "n", "e", "d">>

(***************************************************************************)
(* JavaScript values                                                       *)
(***************************************************************************)
Undefined == [t |-> "undefined"]
Null == [t |-> "null"]
Bool(b) == [t |-> "boolean", b |-> b]
\* The number n / 10^d: d = 0, or d > 0 and n does not end in 0.  (-0 and 0
\* are the one number 0.)
Num(n) == [t |-> "number", n |-> n, d |-> 0]

RECURSIVE Decimal(_, _)
Decimal(n, d) ==
  IF d > 0 /\ n % 10 = 0 THEN Decimal(n \div 10, d - 1)
  ELSE [t |-> "number", n |-> n, d |-> d]
Str(s) == [t |-> "string", s |-> s]

\* An array, and a plain object: its own enumerable entries in their order.
Arr(items) == [t |-> "array", items |-> items]
Obj(entries) == [t |-> "object", entries |-> entries]

\* An array or a plain object that holds a reference to itself.
Cyclic(kind) == [t |-> "cyclic", kind |-> kind]

\* An object that is neither an array nor a plain object (a Date, a RegExp):
\* what String(value) gives for it, and the text JSON.stringify writes for it.
Other(str, json) == [t |-> "other", str |-> str, json |-> json]

(***************************************************************************)
(* Objects: sequences of <<key, value>> entries with distinct keys         *)
(***************************************************************************)
ObjectHas(obj, key) == \E i \in 1..Len(obj) : obj[i][1] = key

ObjectGet(obj, key) ==
  IF ObjectHas(obj, key)
  THEN obj[CHOOSE i \in 1..Len(obj) : obj[i][1] = key][2]
  ELSE Undefined

K_proto == <<"_", "_", "p", "r", "o", "t", "o", "_", "_">>

\* The key is an array index: the digits of an integer below 2^32 - 1,
\* without a leading zero.  The own keys of an object are listed with the
\* array indices first, in ascending order, and the other keys after them
\* in the order they were created.
MaxArrayIndex == <<"4", "2", "9", "4", "9", "6", "7", "2", "9", "4">>

\* a < b, for two strings of digits without leading zeros, compared by
\* length and then digit by digit.
IndexLess(a, b) ==
  \/ Len(a) < Len(b)
  \/ /\ Len(a) = Len(b)
     /\ \E i \in 1..Len(a) :
          /\ SubSeq(a, 1, i - 1) = SubSeq(b, 1, i - 1)
          /\ DigitValue(a[i]) < DigitValue(b[i])

IsArrayIndex(key) ==
  /\ key # <<>>
  /\ \A i \in 1..Len(key) : key[i] \in DigitChars
  /\ Len(key) = 1 \/ key[1] # "0"
  /\ key = MaxArrayIndex \/ IndexLess(key, MaxArrayIndex)

\* The place a new array index takes among the entries: after the array
\* indices below it.
IndexPlace(obj, key) ==
  Cardinality({i \in 1..Len(obj) :
                 /\ IsArrayIndex(obj[i][1])
                 /\ IndexLess(obj[i][1], key)})

\* CreateDataProperty(obj, key, value), as JSON.parse defines the members of
\* an object: an own key keeps its place, a new array index goes to its
\* place among the array indices, another new key goes last.
ObjectDefine(obj, key, value) ==
  IF ObjectHas(obj, key)
  THEN [i \in 1..Len(obj) |->
          IF obj[i][1] = key THEN <<key, value>> ELSE obj[i]]
  ELSE IF IsArrayIndex(key)
       THEN SubSeq(obj, 1, IndexPlace(obj, key)) \o <<<<key, value>>>>
              \o SubSeq(obj, IndexPlace(obj, key) + 1, Len(obj))
  ELSE Append(obj, <<key, value>>)

\* obj[key] = value on a plain object: as CreateDataProperty, but for the key
\* __proto__ that is not an own key, which is the setter of the prototype
\* and creates no own key.
ObjectSet(obj, key, value) ==
  IF key = K_proto /\ ~ObjectHas(obj, key) THEN obj
  ELSE ObjectDefine(obj, key, value)

ObjectKeys(obj) == {obj[i][1] : i \in 1..Len(obj)}

(***************************************************************************)
(* String(value) and JSON.stringify                                        *)
(***************************************************************************)
RECURSIVE NumberToString(_)
\* String(n) for a non-negative integer n.
NumberToString(n) ==
  IF n < 10 THEN <<Digits[n + 1]>>
  ELSE NumberToString(n \div 10) \o <<Digits[(n % 10) + 1]>>

Zeros(k) == [i \in 1..k |-> "0"]

\* String(value) for a number (Number::toString): with the k digits s of the
\* number and its point after the first n of them, the digits of an integer,
\* the digits around the point for 0 < n, "0." and -n zeros before the digits
\* for -6 < n <= 0, and the exponent form below that.
DecimalToString(value) ==
  LET s == NumberToString(IF value.n < 0 THEN -value.n ELSE value.n)
      k == Len(s)
      n == k - value.d
  IN (IF value.n < 0 THEN <<"-">> ELSE <<>>)
       \o (IF value.d = 0 THEN s
           ELSE IF n > 0 THEN SubSeq(s, 1, n) \o <<".">> \o SubSeq(s, n + 1, k)
           ELSE IF n > -6 THEN <<"0", ".">> \o Zeros(-n) \o s
           ELSE <<s[1]>> \o (IF k > 1 THEN <<".">> \o SubSeq(s, 2, k) ELSE <<>>)
                  \o <<"e", "-">> \o NumberToString(1 - n))

\* String(value) for a primitive.
PrimitiveToString(value) ==
  CASE value.t = "string" -> value.s
    [] value.t = "number" -> DecimalToString(value)
    [] value.t = "boolean" -> (IF value.b THEN S_true ELSE S_false)
    [] value.t = "undefined" -> S_undefined
    [] OTHER -> S_null

RECURSIVE JsonEscape(_)
\* The characters of a string inside a JSON text: the quote and the backslash
\* are escaped.
JsonEscape(s) ==
  IF s = <<>> THEN <<>>
  ELSE (IF Head(s) \in {Quote, Backslash}
        THEN <<Backslash, Head(s)>> ELSE <<Head(s)>>) \o JsonEscape(Tail(s))

JsonQuote(s) == <<Quote>> \o JsonEscape(s) \o <<Quote>>

RECURSIVE JsonStringifyThrows(_)
\* JSON.stringify(value) throws a TypeError: the value holds a cycle.
JsonStringifyThrows(value) ==
  CASE value.t = "cyclic" -> TRUE
    [] value.t = "array" ->
         \E i \in 1..Len(value.items) : JsonStringifyThrows(value.items[i])
    [] value.t = "object" ->
         \E i \in 1..Len(value.entries) :
           JsonStringifyThrows(value.entries[i][2])
    [] OTHER -> FALSE

RECURSIVE JsonStringify(_)
RECURSIVE JsonStringifyItems(_)
RECURSIVE JsonStringifyEntries(_, _)
\* JSON.stringify(value) for a value without a cycle, other than undefined.
JsonStringify(value) ==
  CASE value.t = "string" -> JsonQuote(value.s)
    [] value.t = "array" -> <<"[">> \o JsonStringifyItems(value.items) \o <<"]">>
    [] value.t = "object" ->
         <<"{">> \o JsonStringifyEntries(value.entries, FALSE) \o <<"}">>
    [] value.t = "other" -> value.json
    [] OTHER -> PrimitiveToString(value)

\* The elements of an array: undefined is written as null.
JsonStringifyItems(items) ==
  IF items = <<>> THEN <<>>
  ELSE (IF Head(items) = Undefined THEN S_null ELSE JsonStringify(Head(items)))
         \o (IF Len(items) > 1 THEN <<",">> ELSE <<>>)
         \o JsonStringifyItems(Tail(items))

\* The members of an object: a member whose value is undefined is left out.
JsonStringifyEntries(entries, written) ==
  IF entries = <<>> THEN <<>>
  ELSE IF Head(entries)[2] = Undefined
       THEN JsonStringifyEntries(Tail(entries), written)
       ELSE (IF written THEN <<",">> ELSE <<>>)
              \o JsonQuote(Head(entries)[1]) \o <<":">>
              \o JsonStringify(Head(entries)[2])
              \o JsonStringifyEntries(Tail(entries), TRUE)

(***************************************************************************)
(* JSON.parse: a recursive-descent parser of the JSON grammar over         *)
(* Alphabet.  A parse result is [ok, v, next]: whether a value starts at   *)
(* the position, the value, and the position after it.                     *)
(***************************************************************************)
ParseFail == [ok |-> FALSE, v |-> Undefined, next |-> 0]

ParseOk(v, next) == [ok |-> TRUE, v |-> v, next |-> next]

CharAt(s, i) == IF i >= 1 /\ i <= Len(s) THEN s[i] ELSE ""

StartsWithAt(s, i, lit) ==
  /\ i + Len(lit) - 1 <= Len(s)
  /\ SubSeq(s, i, i + Len(lit) - 1) = lit

RECURSIVE Pow10(_)
Pow10(k) == IF k = 0 THEN 1 ELSE 10 * Pow10(k - 1)

\* The position after the run of digits that starts at i.
DigitsEnd(s, i) ==
  CHOOSE k \in i..(Len(s) + 1) :
    /\ \A j \in i..(k - 1) : s[j] \in DigitChars
    /\ CharAt(s, k) \notin DigitChars

\* The number the digits denote: the sign, the digits of the integer part and
\* of the fraction, and the exponent less the length of the fraction.
NumberOf(negative, digits, scale) ==
  IF scale >= 0
  THEN Num((IF negative THEN -1 ELSE 1) * DecimalValue(digits) * Pow10(scale))
  ELSE Decimal((IF negative THEN -1 ELSE 1) * DecimalValue(digits), -scale)

\* The exponent, after the integer part s[p..intEnd-1] and the fraction
\* s[intEnd+1..fracEnd-1]: "e" or "E", an optional sign and the digit run
\* s[expStart..expEnd-1]; expEnd = fracEnd when there is no exponent.
ParseExponent(s, i, p, intEnd, fracEnd, expStart, expEnd) ==
  IF CharAt(s, fracEnd) \in {"e", "E"} /\ expEnd = expStart THEN ParseFail
  ELSE ParseOk(NumberOf(s[i] = "-",
                        SubSeq(s, p, intEnd - 1)
                          \o SubSeq(s, intEnd + 1, fracEnd - 1),
                        (IF expEnd = fracEnd THEN 0
                         ELSE (IF CharAt(s, fracEnd + 1) = "-" THEN -1 ELSE 1)
                                * DecimalValue(SubSeq(s, expStart, expEnd - 1)))
                          - (IF fracEnd > intEnd THEN fracEnd - intEnd - 1
                             ELSE 0)),
               expEnd)

\* The start of the digits of the exponent, after its optional sign.
ParseExponentSign(s, i, p, intEnd, fracEnd, expStart) ==
  ParseExponent(s, i, p, intEnd, fracEnd, expStart,
                IF CharAt(s, fracEnd) \in {"e", "E"}
                THEN DigitsEnd(s, expStart) ELSE fracEnd)

\* The fraction, after the integer part: "." and a digit run; fracEnd = intEnd
\* when there is no fraction.
ParseFraction(s, i, p, intEnd, fracEnd) ==
  IF CharAt(s, intEnd) = "." /\ fracEnd = intEnd + 1 THEN ParseFail
  ELSE ParseExponentSign(s, i, p, intEnd, fracEnd,
                         IF CharAt(s, fracEnd + 1) \in {"+", "-"}
                         THEN fracEnd + 2 ELSE fracEnd + 1)

\* The integer part s[p..intEnd-1]: "0", or a digit run without leading zero.
ParseInteger(s, i, p, intEnd) ==
  IF intEnd = p THEN ParseFail
  ELSE ParseFraction(s, i, p, intEnd,
                     IF CharAt(s, intEnd) = "."
                     THEN DigitsEnd(s, intEnd + 1) ELSE intEnd)

\* The digits of the integer part start at p, after the optional "-".
ParseUnsigned(s, i, p) ==
  ParseInteger(s, i, p, IF CharAt(s, p) = "0" THEN p + 1 ELSE DigitsEnd(s, p))

\* number: an optional "-", then "0" or a digit run without leading zero, then
\* an optional fraction of "." and a digit run, then an optional exponent of
\* "e" or "E", an optional sign and a digit run.
ParseNumber(s, i) == ParseUnsigned(s, i, IF s[i] = "-" THEN i + 1 ELSE i)

RECURSIVE ParseStringFrom(_, _, _)
\* The characters of a string up to its closing quote; of the escapes, the
\* quote, the backslash and the solidus denote characters of the model.
ParseStringFrom(s, j, acc) ==
  IF j > Len(s) THEN ParseFail
  ELSE IF s[j] = Quote THEN ParseOk(Str(acc), j + 1)
  ELSE IF s[j] = Backslash
       THEN IF CharAt(s, j + 1) \in {Quote, Backslash, "/"}
            THEN ParseStringFrom(s, j + 2, Append(acc, s[j + 1]))
            ELSE ParseFail
  ELSE ParseStringFrom(s, j + 1, Append(acc, s[j]))

RECURSIVE ParseValue(_, _)
RECURSIVE ParseElements(_, _, _)
RECURSIVE ParseMembers(_, _, _)
ParseValue(s, i) ==
  IF i > Len(s) THEN ParseFail
  ELSE IF s[i] = Quote THEN ParseStringFrom(s, i + 1, <<>>)
  ELSE IF s[i] \in DigitChars \cup {"-"} THEN ParseNumber(s, i)
  ELSE IF s[i] = "["
       THEN IF CharAt(s, i + 1) = "]" THEN ParseOk(Arr(<<>>), i + 2)
            ELSE ParseElements(s, i + 1, <<>>)
  ELSE IF s[i] = "{"
       THEN IF CharAt(s, i + 1) = "}" THEN ParseOk(Obj(<<>>), i + 2)
            ELSE ParseMembers(s, i + 1, <<>>)
  ELSE IF StartsWithAt(s, i, S_true) THEN ParseOk(Bool(TRUE), i + 4)
  ELSE IF StartsWithAt(s, i, S_false) THEN ParseOk(Bool(FALSE), i + 5)
  ELSE IF StartsWithAt(s, i, S_null) THEN ParseOk(Null, i + 4)
  ELSE ParseFail

\* The elements of an array after "[" or ",".
ParseElements(s, i, acc) ==
  LET r == ParseValue(s, i)
  IN IF ~r.ok THEN ParseFail
     ELSE IF CharAt(s, r.next) = ","
          THEN ParseElements(s, r.next + 1, Append(acc, r.v))
     ELSE IF CharAt(s, r.next) = "]"
          THEN ParseOk(Arr(Append(acc, r.v)), r.next + 1)
     ELSE ParseFail

\* The members of an object after "{" or ",": a repeated key keeps its place
\* and takes the last value; the keys that are array indices come first.
ParseMembers(s, i, acc) ==
  LET k == IF CharAt(s, i) = Quote THEN ParseStringFrom(s, i + 1, <<>>)
           ELSE ParseFail
      r == IF k.ok /\ CharAt(s, k.next) = ":" THEN ParseValue(s, k.next + 1)
           ELSE ParseFail
  IN IF ~r.ok THEN ParseFail
     ELSE IF CharAt(s, r.next) = ","
          THEN ParseMembers(s, r.next + 1, ObjectDefine(acc, k.v.s, r.v))
     ELSE IF CharAt(s, r.next) = "}"
          THEN ParseOk(Obj(ObjectDefine(acc, k.v.s, r.v)), r.next + 1)
     ELSE ParseFail

\* The whole text is one JSON value.
ParseText(s) ==
  LET r == ParseValue(s, 1)
  IN IF r.ok /\ r.next = Len(s) + 1 THEN r ELSE ParseFail

\* JSON.parse succeeds on s.
JsonParses(s) == ParseText(s).ok

\* JSON.parse(s), for s with JsonParses(s).
JsonParse(s) == ParseText(s).v

(***************************************************************************)
(* The codec of the hook                                                   *)
(***************************************************************************)
K_constructor == <<"c", "o", "n", "s", "t", "r", "u", "c", "t", "o", "r">>
K_prototype == <<"p", "r", "o", "t", "o", "t", "y", "p", "e">>

\* The keys safeJsonParse removes from the top level of a parsed object.
DangerousKeys == {K_proto, K_constructor, K_prototype}

\* hasDangerousKeys
HasDangerousKeys(entries) == \E k \in DangerousKeys : ObjectHas(entries, k)

\* The for-in loop that copies the own keys that are not dangerous.
Sanitized(entries) == SelectSeq(entries, LAMBDA e : e[1] \notin DangerousKeys)

\* Mutant of safeJsonParse: a parsed object keeps its dangerous keys.
safeJsonParseUnsanitized(value) ==
  IF ~JsonParses(value) THEN Str(value) ELSE JsonParse(value)

\* Mutant of safeJsonParse: only a parsed array or object is returned, a
\* parsed primitive is given back as the raw string.
safeJsonParseStructuredOnly(value) ==
  IF ~JsonParses(value) THEN Str(value)
  ELSE IF JsonParse(value).t = "object"
            /\ HasDangerousKeys(JsonParse(value).entries)
       THEN Obj(Sanitized(JsonParse(value).entries))
  ELSE IF JsonParse(value).t = "array" \/ JsonParse(value).t = "object"
       THEN JsonParse(value)
  ELSE Str(value)

\* Mutant of safeJsonParse: the check that rejects objects that are not plain
\* rejects the plain ones.
safeJsonParsePlainRejected(value) ==
  IF ~JsonParses(value) THEN Str(value)
  ELSE IF JsonParse(value).t = "object" THEN Str(value)
  ELSE JsonParse(value)

RECURSIVE DeepSanitized(_)
\* A parsed value without the dangerous keys of any object in it.
DeepSanitized(value) ==
  CASE value.t = "array" ->
         Arr([i \in 1..Len(value.items) |-> DeepSanitized(value.items[i])])
    [] value.t = "object" ->
         LET kept == Sanitized(value.entries)
         IN Obj([i \in 1..Len(kept) |->
                   <<kept[i][1], DeepSanitized(kept[i][2])>>])
    [] OTHER -> value

\* Mutant of safeJsonParse: the dangerous keys are removed at every depth.
safeJsonParseDeep(value) ==
  IF ~JsonParses(value) THEN Str(value) ELSE DeepSanitized(JsonParse(value))

\* safeJsonParse: the parsed value, a parsed plain object without its
\* dangerous top-level keys, or the raw string when JSON.parse throws.
\* (JSON.parse yields primitives, arrays and plain objects only, so the check
\* that rejects other objects never applies.)
safeJsonParse(value) ==
  IF ~JsonParses(value) THEN Str(value)
  ELSE IF JsonParse(value).t = "object"
            /\ HasDangerousKeys(JsonParse(value).entries)
       THEN Obj(Sanitized(JsonParse(value).entries))
  ELSE JsonParse(value)

\* Mutant of safeSerialize: every object is written by JSON.stringify.
safeSerializeAllJson(value) ==
  IF value = Null THEN <<>>
  ELSE IF value.t \notin {"array", "object", "cyclic", "other"}
       THEN PrimitiveToString(value)
  ELSE IF JsonStringifyThrows(value) THEN <<>>
  ELSE JsonStringify(value)

\* safeSerialize: "" for null, String(value) for the other primitives,
\* JSON.stringify(value) for arrays and plain objects, "" when that throws,
\* String(value) for the other objects.
safeSerialize(value) ==
  IF value = Null THEN <<>>
  ELSE IF value.t = "other" THEN value.str
  ELSE IF value.t \notin {"array", "object", "cyclic"}
       THEN PrimitiveToString(value)
  ELSE IF JsonStringifyThrows(value) THEN <<>>
  ELSE JsonStringify(value)

(***************************************************************************)
(* URLSearchParams: a sequence of <<name, value>> pairs of strings          *)
(***************************************************************************)
RECURSIVE ParamsDelete(_, _)
\* URLSearchParams.delete(name): every pair of that name goes.
ParamsDelete(params, name) ==
  IF params = <<>> THEN <<>>
  ELSE IF Head(params)[1] = name THEN ParamsDelete(Tail(params), name)
  ELSE <<Head(params)>> \o ParamsDelete(Tail(params), name)

ParamsHas(params, name) == \E i \in 1..Len(params) : params[i][1] = name

\* URLSearchParams.get(name): the first value of that name.
ParamsGet(params, name) ==
  params[CHOOSE i \in 1..Len(params) :
           /\ params[i][1] = name
           /\ \A j \in 1..(i - 1) : params[j][1] # name][2]

\* Mutant of ParamsSet: URLSearchParams.append(name, value).
ParamsSetAppends(params, name, value) == Append(params, <<name, value>>)

\* URLSearchParams.set(name, value): the first pair of that name takes the
\* value and the others go; a new name is appended.
ParamsSet(params, name, value) ==
  IF ParamsHas(params, name)
  THEN LET first == CHOOSE i \in 1..Len(params) :
                      /\ params[i][1] = name
                      /\ \A j \in 1..(i - 1) : params[j][1] # name
       IN SubSeq(params, 1, first - 1) \o <<<<name, value>>>>
            \o ParamsDelete(SubSeq(params, first + 1, Len(params)), name)
  ELSE Append(params, <<name, value>>)

\* The printable ASCII characters, from the space (code 32) to "~" (code 126);
\* the place of the grave accent (code 96), which no string of the model
\* holds, is taken by the empty string.
Ascii ==
  <<" ", "!", "\"", "#", "$", "%", "&", "'", "(", ")", "*", "+", ",", "-",
    ".", "/", "0", "1", "2", "3", "4", "5", "6", "7", "8", "9", ":", ";",
    "<", "=", ">", "?", "@", "A", "B", "C", "D", "E", "F", "G", "H", "I",
    "J", "K", "L", "M", "N", "O", "P", "Q", "R", "S", "T", "U", "V", "W",
    "X", "Y", "Z", "[", "\\", "]", "^", "_", "", "a", "b", "c", "d", "e",
    "f", "g", "h", "i", "j", "k", "l", "m", "n", "o", "p", "q", "r", "s",
    "t", "u", "v", "w", "x", "y", "z", "{", "|", "}", "~">>

\* The code of every character of Ascii.
CharCodes ==
  [c \in {Ascii[i] : i \in 1..Len(Ascii)} |->
     31 + (CHOOSE i \in 1..Len(Ascii) : Ascii[i] = c)]

\* String.prototype.charCodeAt, for a string of one ASCII character.
CharCode(c) == CharCodes[c]

HexDigits ==
  <<"0", "1", "2", "3", "4", "5", "6", "7", "8", "9", "A", "B", "C", "D", "E",
    "F">>

\* application/x-www-form-urlencoded byte serialisation of one ASCII
\* character: letters, digits, "*", "-", "." and "_" stay, the space becomes
\* "+", the rest is percent-encoded.
UrlEncodeChar(c) ==
  IF c \in Letters \cup DigitChars \cup {"*", "-", ".", "_"} THEN <<c>>
  ELSE IF c = " " THEN <<"+">>
  ELSE <<"%", HexDigits[(CharCode(c) \div 16) + 1],
         HexDigits[(CharCode(c) % 16) + 1]>>

RECURSIVE UrlEncode(_)
UrlEncode(s) ==
  IF s = <<>> THEN <<>> ELSE UrlEncodeChar(Head(s)) \o UrlEncode(Tail(s))

RECURSIVE ParamsToString(_)
\* URLSearchParams.toString(): name=value pairs joined by "&".
ParamsToString(params) ==
  IF params = <<>> THEN <<>>
  ELSE UrlEncode(Head(params)[1]) \o <<"=">> \o UrlEncode(Head(params)[2])
         \o (IF Len(params) > 1 THEN <<"&">> ELSE <<>>)
         \o ParamsToString(Tail(params))

\* searchParamsToString
searchParamsToString(params) == ParamsToString(params)

(***************************************************************************)
(* encodeURIComponent and btoa, which the tests of the structured values   *)
(* apply to the JSON text                                                  *)
(***************************************************************************)
\* encodeURIComponent, one ASCII character: letters, digits and the marks
\* - _ . ! ~ * ( ) and the apostrophe stay, the rest is percent-encoded.
EncodeURIComponentChar(c) ==
  IF c \in Letters \cup DigitChars
            \cup {"-", "_", ".", "!", "~", "*", "'", "(", ")"}
  THEN <<c>>
  ELSE <<"%", HexDigits[(CharCode(c) \div 16) + 1],
         HexDigits[(CharCode(c) % 16) + 1]>>

RECURSIVE EncodeURIComponent(_)
EncodeURIComponent(s) ==
  IF s = <<>> THEN <<>>
  ELSE EncodeURIComponentChar(Head(s)) \o EncodeURIComponent(Tail(s))

Base64Chars ==
  <<"A", "B", "C", "D", "E", "F", "G", "H", "I", "J", "K", "L", "M", "N",
    "O", "P", "Q", "R", "S", "T", "U", "V", "W", "X", "Y", "Z", "a", "b",
    "c", "d", "e", "f", "g", "h", "i", "j", "k", "l", "m", "n", "o", "p",
    "q", "r", "s", "t", "u", "v", "w", "x", "y", "z", "0", "1", "2", "3",
    "4", "5", "6", "7", "8", "9", "+", "/">>

RECURSIVE Btoa(_)
\* btoa: three characters give four base64 characters; a last group of one
\* or two characters is padded with "=".
Btoa(s) ==
  IF s = <<>> THEN <<>>
  ELSE LET n == 65536 * CharCode(s[1])
                  + (IF Len(s) > 1 THEN 256 * CharCode(s[2]) ELSE 0)
                  + (IF Len(s) > 2 THEN CharCode(s[3]) ELSE 0)
       IN <<Base64Chars[(n \div 262144) + 1],
            Base64Chars[((n \div 4096) % 64) + 1],
            IF Len(s) > 1 THEN Base64Chars[((n \div 64) % 64) + 1] ELSE "=",
            IF Len(s) > 2 THEN Base64Chars[(n % 64) + 1] ELSE "=">>
            \o (IF Len(s) > 3 THEN Btoa(SubSeq(s, 4, Len(s))) ELSE <<>>)

\* btoa(encodeURIComponent(JSON.stringify(value)))
Base64Json(value) == Btoa(EncodeURIComponent(JsonStringify(value)))

(***************************************************************************)
(* The sensitive-field heuristic                                           *)
(***************************************************************************)
SENSITIVE_FIELD_PATTERNS ==
  <<
    <<"p", "a", "s", "s", "w", "o", "r", "d">>,
    <<"p", "w", "d">>,
    <<"p", "a", "s", "s">>,
    <<"s", "e", "c", "r", "e", "t">>,
    <<"t", "o", "k", "e", "n">>,
    <<"a", "p", "i", "K", "e", "y">>,
    <<"a", "p", "i", "k", "e", "y">>,
    <<"a", "u", "t", "h">>,
    <<"c", "r", "e", "d", "e", "n", "t", "i", "a", "l">>,
    <<"s", "s", "n">>,
    <<"s", "o", "c", "i", "a", "l", "S", "e", "c", "u", "r", "i", "t", "y">>,
    <<"c", "r", "e", "d", "i", "t", "C", "a", "r", "d">>,
    <<"c", "a", "r", "d", "N", "u", "m", "b", "e", "r">>,
    <<"c", "v", "v">>,
    <<"c", "v", "c">>,
    <<"p", "i", "n">>,
    <<"s", "s", "n">>,
    <<"s", "i", "n">>,
    <<"a", "c", "c", "o", "u", "n", "t", "N", "u", "m", "b", "e", "r">>,
    <<"r", "o", "u", "t", "i", "n", "g", "N", "u", "m", "b", "e", "r">>,
    <<"b", "a", "n", "k", "A", "c", "c", "o", "u", "n", "t">> >>

\* pattern.toLowerCase(), for each pattern.
LowerPatterns ==
  [i \in 1..Len(SENSITIVE_FIELD_PATTERNS) |->
     ToLowerCase(SENSITIVE_FIELD_PATTERNS[i])]

\* isSensitive: the lower-cased name includes a lower-cased pattern.
IsSensitive(fieldName) ==
  LET lowerFieldName == ToLowerCase(fieldName)
  IN \E i \in 1..Len(SENSITIVE_FIELD_PATTERNS) :
       Includes(lowerFieldName, LowerPatterns[i])

\* Mutant of warnIfSensitiveField: the check of NODE_ENV is missing.
warnIfSensitiveFieldAnyMode(fieldName, exclude, dev) ==
  fieldName \notin exclude /\ IsSensitive(fieldName)

\* warnIfSensitiveField calls console.warn: in development only, not for an
\* excluded field, when the name is sensitive.
warnIfSensitiveField(fieldName, exclude, dev) ==
  /\ dev
  /\ fieldName \notin exclude
  /\ IsSensitive(fieldName)

(***************************************************************************)
(* The configuration of the hook and the inputs of the model               *)
(***************************************************************************)
K_name == <<"n", "a", "m", "e">>
K_password == <<"p", "a", "s", "s", "w", "o", "r", "d">>
K_page == <<"p", "a", "g", "e">>

\* excludeFields
ExcludeFields == {K_password}

\* The number of setValue calls of the user in one run.
MaxEdits == 2

\* The number of changes of the query string by the outside world in one run.
MaxNavigations == 2

\* defaultValues of the form: the state of the form store at construction.
DefaultForms ==
  { <<<<K_name, Str(<<>>)>>, <<K_password, Str(<<>>)>>>>,
    <<<<K_name, Str(<<"a">>)>>, <<K_password, Str(<<>>)>>>> }

\* The values a user gives a field with setValue.
UserValues(field) ==
  IF field = K_password
  THEN {Str(<<>>), Str(<<"x">>)}
  ELSE {Str(<<>>), Str(<<"a">>), Str(<<"b">>)}

\* The query strings the outside world sets: on load and by navigation.
ExternalUrls ==
  { <<>>,
    <<<<K_name, <<"a">>>>>>,
    <<<<K_name, <<"b">>>>, <<K_password, <<"x">>>>>>,
    <<<<K_page, <<"1">>>>>>,
    <<<<K_name, <<"\"", "a", "\"">>>>>> }

\* maxUrlLength when the option is not given.
DEFAULT_MAX_URL_LENGTH == 2000

\* A maxUrlLength that query strings of the model exceed.
ShortUrlLength == 12

(***************************************************************************)
(* The wider inputs: structured, cyclic and empty form values, a field     *)
(* with a sensitive name, query values that are JSON texts or not          *)
(***************************************************************************)
K_data == <<"d", "a", "t", "a">>
K_userToken == <<"u", "s", "e", "r", "T", "o", "k", "e", "n">>
K_a == <<"a">>
K_b == <<"b">>

\* new Date("2023-01-01"), in the time zone UTC.
DateValue ==
  Other(
    <<"S", "u", "n", " ", "J", "a", "n", " ", "0", "1", " ", "2", "0", "2",
      "3", " ", "0", "0", ":", "0", "0", ":", "0", "0", " ", "G", "M", "T",
      "+", "0", "0", "0", "0", " ", "(", "C", "o", "o", "r", "d", "i", "n",
      "a", "t", "e", "d", " ", "U", "n", "i", "v", "e", "r", "s", "a", "l",
      " ", "T", "i", "m", "e", ")">>,
    <<"\"", "2", "0", "2", "3", "-", "0", "1", "-", "0", "1", "T", "0", "0",
      ":", "0", "0", ":", "0", "0", ".", "0", "0", "0", "Z", "\"">>)

\* The regular expression /test/gi.
RegExpValue ==
  Other(<<"/", "t", "e", "s", "t", "/", "g", "i">>, <<"{", "}">>)

\* The values of the field data.
WideData ==
  { Str(<<>>),
    Undefined,
    Obj(<<<<K_a, Num(1)>>, <<K_b, Arr(<<Bool(TRUE), Null>>)>>>>),
    Obj(<<<<K_constructor, Str(<<"x">>)>>, <<K_a, Num(1)>>>>),
    Arr(<<Num(1), Str(<<"a">>), Obj(<<<<K_proto, Num(2)>>>>)>>),
    Cyclic("object"),
    Arr(<<Cyclic("array")>>),
    DateValue,
    RegExpValue }

\* defaultValues of the wider forms: the name and the userToken are both
\* empty or both set.
WideForms ==
  { <<<<K_data, d>>, <<K_name, nk[1]>>, <<K_userToken, nk[2]>>,
      <<K_password, Str(<<"x">>)>>>> :
      d \in WideData,
      nk \in {<<Null, Str(<<>>)>>, <<Str(<<"a">>), Str(<<"t">>)>>} }

\* NODE_ENV and the option maxUrlLength of the wider runs: production with
\* the default length, development with a short one.
WideConfigs ==
  {<<FALSE, DEFAULT_MAX_URL_LENGTH>>, <<TRUE, ShortUrlLength>>}

\* The values the user gives the field name of a wider form.
WideUserValues == {Null, Undefined, Str(<<>>)}

\* The array whose base64 form a query string holds.
Base64Payload == Arr(<<Num(1), Str(<<"a">>)>>)

\* The query strings a wider form is loaded with.
WideUrls ==
  { <<>>,
    <<<<K_name, <<"b">>>>, <<K_page, <<"1">>>>>>,
    <<<<K_page, S_null>>>>,
    <<<<K_data, <<"{">> \o JsonQuote(K_proto) \o <<":", "{">> \o JsonQuote(K_a)
                  \o <<":">> \o S_true \o <<"}", ",">> \o JsonQuote(K_b)
                  \o <<":">> \o JsonQuote(<<"v">>) \o <<"}">>>>>>,
    <<<<K_data, <<"{">> \o JsonQuote(K_a) \o <<":", "1", "}">>>>,
      <<K_name, <<>>>>, <<K_password, <<"y">>>>>>,
    <<<<K_name, <<"a">>>>, <<K_name, <<"b">>>>, <<K_data, <<>>>>>>,
    <<<<K_name, <<"{", "a">>>>, <<K_userToken, <<"1", "e", "2">>>>>>,
    <<<<K_data, <<"[", "1", ",">> \o JsonQuote(<<"a">>) \o <<"]">>>>>>,
    <<<<K_name, <<"b">>>>, <<K_name, <<>>>>>>,
    <<<<K_data, S_true>>, <<K_name, S_false>>, <<K_userToken, <<"3", "0">>>>,
      <<K_page, <<"0">>>>, <<K_a, <<"-", "5">>>>>>,
    <<<<K_data, Base64Json(Base64Payload)>>>>,
    <<<<K_password, <<"y">>>>, <<K_name, <<>>>>>> }

(***************************************************************************)
(* State                                                                   *)
(***************************************************************************)
VARIABLES
  phase,             \* "init" (constructed), "mounted", "unmounted"
  firstRender,       \* firstRender.current
  timeoutRef,        \* timeoutRef.current: a timer id, 0 for null
  lastUrlParams,     \* lastUrlParamsRef.current
  isUpdatingFromUrl, \* isUpdatingFromUrlRef.current
  cleanup,           \* the publication effect's last run returned its cleanup
  form,              \* the values of the form store
  url,               \* the query string of the outside world
  seen,              \* adapter.searchParams as of the last render
  rendered,          \* <<[values, cause, user, echo]>> when the hook has been
                     \* rendered and the effects of that render have not run
                     \* yet: the values useWatch returned to the render, and
                     \* what the render stands for
  timers,            \* the pending timers of the host: the closure of each
                     \* ([id, values, params]) and what it stands for
                     \* ([cause, changes])
  clearPending,      \* the microtask that clears isUpdatingFromUrlRef is queued
  notify,            \* a form change not rendered yet: "none", "reset", "user"
  lastOp,            \* the step taken last
  sinkArg,           \* <<params>> when the last step called setSearchParams
  inSink,            \* the callback of a timer has called setSearchParams
                     \* and the call has not returned
  resetArg,          \* <<restoredValues>> when the last step called reset
  fired,             \* <<timer>> when the last step was a timer firing
  repeat,            \* the last step was a fire that published the form
                     \* snapshot of the fire before it, and the outside world
                     \* left the URL alone during both debounce windows
  quiet,             \* <<values>> when the last fire published these form
                     \* values and the outside world has left the URL alone
                     \* since the render that scheduled the timer of that fire
  formChanged,       \* a form value was set after mount, by the user or by reset
  cancelled,         \* the number of pending timers the last step cancelled
  echo,              \* a commit of this hook has not been rendered yet
  edits,             \* the setValue calls so far
  navigations,       \* the changes of the URL by the outside world so far
  devMode,           \* process.env.NODE_ENV === 'development'
  maxUrlLength,      \* the option maxUrlLength
  console            \* the console.warn calls of the last step

vars ==
  <<phase, firstRender, timeoutRef, lastUrlParams, isUpdatingFromUrl, cleanup,
    form, url, seen, rendered, timers, clearPending, notify, lastOp, sinkArg,
    inSink, resetArg, fired, repeat, quiet, formChanged, cancelled,
    echo, edits, navigations, devMode, maxUrlLength, console>>

refs == <<firstRender, timeoutRef, lastUrlParams, isUpdatingFromUrl, cleanup>>

config == <<devMode, maxUrlLength>>

(***************************************************************************)
(* The pure steps of the two effects of useSyncUrl                         *)
(***************************************************************************)
RECURSIVE RestoredValuesAll(_, _)
\* Mutant of RestoredValues: the excludeFields check of the loop is missing.
RestoredValuesAll(params, exclude) ==
  IF params = <<>> THEN <<>>
  ELSE LET rest == RestoredValuesAll(SubSeq(params, 1, Len(params) - 1), exclude)
           key == params[Len(params)][1]
           value == params[Len(params)][2]
       IN IF value # <<>> THEN ObjectSet(rest, key, safeJsonParse(value))
          ELSE rest

RECURSIVE RestoredValues(_, _)
\* Hydration, the params.forEach loop: every pair whose key is not excluded
\* and whose value is non-empty sets restoredValues[key] = safeJsonParse(value),
\* in the order of the pairs (the last pair of a repeated key wins).
RestoredValues(params, exclude) ==
  IF params = <<>> THEN <<>>
  ELSE LET rest == RestoredValues(SubSeq(params, 1, Len(params) - 1), exclude)
           key == params[Len(params)][1]
           value == params[Len(params)][2]
       IN IF key \in exclude THEN rest
          ELSE IF value # <<>> THEN ObjectSet(rest, key, safeJsonParse(value))
          ELSE rest

\* Mutant of HydrationSkips: the effect has no short-circuit.
HydrationSkipsNever(first, currentUrlParams, lastUrlString) == FALSE

\* Mutant of HydrationSkips: the first render is not excepted.
HydrationSkipsFirstToo(first, currentUrlParams, lastUrlString) ==
  currentUrlParams = lastUrlString

\* Hydration: skip when the URL has not changed, except on the first render.
HydrationSkips(first, currentUrlParams, lastUrlString) ==
  ~first /\ currentUrlParams = lastUrlString

\* Hydration: lastUrlParamsRef after a pass that is not skipped.
LastUrlAfterHydration(currentUrlParams, lastUrlString) == currentUrlParams

\* Mutant of FirstRenderAfterPass: only the branch without restored values
\* marks the first render as complete.
FirstRenderAfterPassElseOnly(first, applies) ==
  IF applies THEN first ELSE FALSE

\* Hydration: firstRender.current after a pass that is not skipped; both the
\* else-branch and the final statement set it to false.
FirstRenderAfterPass(first, applies) == FALSE

\* Mutant of HydrationApplies: reset is called with an empty mapping too.
HydrationAppliesAlways(restored) == TRUE

\* Hydration: reset is called when restoredValues has a key.
HydrationApplies(restored) == Len(restored) > 0

RECURSIVE MergeReset(_, _)
\* The form store's reset(restoredValues), as the hook relies on it: the given
\* keys take the given values, every other field keeps its value.
MergeReset(formValues, restored) ==
  IF restored = <<>> THEN formValues
  ELSE MergeReset(ObjectSet(formValues, Head(restored)[1], Head(restored)[2]),
                  Tail(restored))

\* Publication: the effect returns early while the form is being updated from
\* the URL and on the first render.
PublicationSkips(updating, first) == updating \/ first

\* Mutant of CleanupTimeout: the effect returns no cleanup.
CleanupTimeoutNone(pending, ref) == pending

\* clearTimeout(timeoutRef.current), when timeoutRef.current is set: the
\* cleanup the publication effect returns.
CleanupTimeout(pending, ref) ==
  IF ref # 0 THEN {t \in pending : t.id # ref} ELSE pending

\* clearTimeout(timeoutRef.current), when timeoutRef.current is set: the
\* publication effect before it schedules.
ClearPreviousTimeout(pending, ref) ==
  IF ref # 0 THEN {t \in pending : t.id # ref} ELSE pending

\* setTimeout returns an id no pending timer has.
NewTimerId(pending) ==
  CHOOSE i \in 1..(Cardinality(pending) + 1) :
    /\ \A t \in pending : t.id # i
    /\ \A j \in 1..(i - 1) : \E t \in pending : t.id = j

\* Mutant of DeleteExcluded: excluded fields already in the URL stay.
DeleteExcludedNone(params, exclude) == params

RECURSIVE DeleteExcluded(_, _)
\* excludeFields.forEach(field => newParams.delete(field))
DeleteExcluded(params, exclude) ==
  IF exclude = {} THEN params
  ELSE LET field == CHOOSE f \in exclude : TRUE
       IN DeleteExcluded(ParamsDelete(params, field), exclude \ {field})

\* A form value the timer callback removes without serialising it.
IsEmptyValue(value) ==
  value = Undefined \/ value = Null \/ value = Str(<<>>)

\* Mutant of ApplyEntry: the excludeFields check of the loop is missing.
ApplyEntryNoSkip(params, key, value, exclude) ==
  IF IsEmptyValue(value) THEN ParamsDelete(params, key)
  ELSE IF safeSerialize(value) # <<>>
       THEN ParamsSet(params, key, safeSerialize(value))
       ELSE ParamsDelete(params, key)

\* Mutant of ApplyEntry: a field the heuristic warns about is skipped.
ApplyEntryWarnedSkipped(params, key, value, exclude) ==
  IF key \in exclude THEN params
  ELSE IF warnIfSensitiveField(key, exclude, devMode) THEN params
  ELSE IF IsEmptyValue(value) THEN ParamsDelete(params, key)
  ELSE IF safeSerialize(value) # <<>>
       THEN ParamsSet(params, key, safeSerialize(value))
       ELSE ParamsDelete(params, key)

\* Mutant of ApplyEntry: the result of safeSerialize is set as it is.
ApplyEntrySetEmpty(params, key, value, exclude) ==
  IF key \in exclude THEN params
  ELSE IF IsEmptyValue(value) THEN ParamsDelete(params, key)
  ELSE ParamsSet(params, key, safeSerialize(value))

\* Mutant of ApplyEntry: an empty value leaves the working copy alone.
ApplyEntryKeepEmpty(params, key, value, exclude) ==
  IF key \in exclude THEN params
  ELSE IF IsEmptyValue(value) THEN params
  ELSE IF safeSerialize(value) # <<>>
       THEN ParamsSet(params, key, safeSerialize(value))
       ELSE ParamsDelete(params, key)

\* One form entry applied to the working copy.
ApplyEntry(params, key, value, exclude) ==
  IF key \in exclude THEN params
  ELSE IF IsEmptyValue(value) THEN ParamsDelete(params, key)
  ELSE IF safeSerialize(value) # <<>>
       THEN ParamsSet(params, key, safeSerialize(value))
       ELSE ParamsDelete(params, key)

RECURSIVE ApplyEntries(_, _, _)
\* Object.entries(values).forEach(...)
ApplyEntries(params, vals, exclude) ==
  IF vals = <<>> THEN params
  ELSE ApplyEntries(ApplyEntry(params, Head(vals)[1], Head(vals)[2], exclude),
                    Tail(vals), exclude)

\* The timer callback's working copy: the clone of adapter.searchParams
\* without the excluded fields, with the form values applied.
BuildParams(params, vals, exclude) ==
  ApplyEntries(DeleteExcluded(params, exclude), vals, exclude)

\* safeSerialize calls console.warn: JSON.stringify threw.
SerializeWarns(value) ==
  value.t \in {"array", "object", "cyclic"} /\ JsonStringifyThrows(value)

\* The console.warn calls of the timer callback for one form entry.
EntryWarnings(key, value, exclude, dev) ==
  IF key \in exclude THEN <<>>
  ELSE (IF warnIfSensitiveField(key, exclude, dev)
        THEN <<[kind |-> "sensitive", field |-> key]>> ELSE <<>>)
       \o (IF ~IsEmptyValue(value) /\ SerializeWarns(value)
           THEN <<[kind |-> "serialize", field |-> key]>> ELSE <<>>)

RECURSIVE EntriesWarnings(_, _, _)
\* The console.warn calls of Object.entries(values).forEach(...), in order.
EntriesWarnings(vals, exclude, dev) ==
  IF vals = <<>> THEN <<>>
  ELSE EntryWarnings(Head(vals)[1], Head(vals)[2], exclude, dev)
         \o EntriesWarnings(Tail(vals), exclude, dev)

\* The timer callback warns about the length of the URL.
LengthWarns(urlString, maxLength) == Len(urlString) > maxLength

\* Mutant of CommitNeeded: the comparison with the last URL is missing.
CommitAlways(newUrlString, lastUrlString) == TRUE

\* Mutant of CommitNeeded: a URL longer than maxUrlLength is not committed.
CommitNeededWithinLength(newUrlString, lastUrlString) ==
  newUrlString # lastUrlString /\ Len(newUrlString) <= maxUrlLength

\* The timer callback commits only when the URL string changed.
CommitNeeded(newUrlString, lastUrlString) == newUrlString # lastUrlString

\* The timer callback: lastUrlParamsRef.current when it calls
\* adapter.setSearchParams(newParams), or ends without calling it.
LastUrlAfterFire(newUrlString, lastUrlString) ==
  IF CommitNeeded(newUrlString, lastUrlString)
  THEN newUrlString ELSE lastUrlString

\* useRef(true), useRef(null), useRef(""), useRef(false): the state after
\* construction, before the first render's effects have run.
Init ==
  /\ phase = "init"
  /\ firstRender = TRUE
  /\ timeoutRef = 0
  /\ lastUrlParams = <<>>
  /\ isUpdatingFromUrl = FALSE
  /\ cleanup = FALSE
  /\ form \in DefaultForms
  /\ url \in ExternalUrls
  /\ seen = <<>>
  /\ rendered = <<>>
  /\ timers = {}
  /\ clearPending = FALSE
  /\ notify = "none"
  /\ lastOp = "Init"
  /\ sinkArg = <<>>
  /\ inSink = FALSE
  /\ resetArg = <<>>
  /\ fired = <<>>
  /\ repeat = FALSE
  /\ quiet = <<>>
  /\ formChanged = FALSE
  /\ cancelled = 0
  /\ echo = FALSE
  /\ edits = 0
  /\ navigations = 0
  /\ devMode = FALSE
  /\ maxUrlLength = DEFAULT_MAX_URL_LENGTH
  /\ console = <<>>

(***************************************************************************)
(* A render of the hook, and the two effects of the render.  The body of   *)
(* useSyncUrl reads the form values and adapter.searchParams and registers *)
(* the two effects; the host runs them later in one pass: the cleanup the  *)
(* publication effect returned when it ran last, then the effects in the   *)
(* order they are declared, hydration and publication.  The cleanup and    *)
(* the hydration effect touch different state, so their order is not seen. *)
(* The dependencies of both effects have changed: the adapter and          *)
(* excludeFields are new objects on every render of the host, values is    *)
(* new on every form change.  Between the body and the effects a timer may *)
(* fire, the user may set a value and the outside world may change the     *)
(* query string; the host runs the effects of a render before it renders   *)
(* again or unmounts.                                                      *)
(***************************************************************************)
\* What made the host render: the ghost label a scheduled timer carries.
RenderCause ==
  IF phase = "init" THEN "mount"
  ELSE IF notify # "none" THEN notify
  ELSE IF url # seen THEN "url"
  ELSE "rerender"

RECURSIVE SumChanges(_)
\* The form changes the timers of a set stand for.
SumChanges(pending) ==
  IF pending = {} THEN 0
  ELSE LET t == CHOOSE x \in pending : TRUE
       IN t.changes + SumChanges(pending \ {t})

\* The body of useSyncUrl: useRef (the refs of the instance), useWatch (the
\* form values as they are), and the two useEffect calls, whose closures hold
\* the values and the adapter of this render.
Render ==
  /\ phase \in {"init", "mounted"}
  \* The effects of a render run before the host renders again.
  /\ rendered = <<>>
  \* Before the queued microtask has run, only the form's own notification
  \* of the reset can be rendered (in the same task).
  /\ clearPending => notify = "reset"
  /\ rendered' = <<[values |-> form,
                    cause |-> RenderCause,
                    user |-> IF notify = "user" THEN 1 ELSE 0,
                    echo |-> echo]>>
  /\ seen' = url
  /\ phase' = "mounted"
  /\ notify' = "none"
  /\ echo' = FALSE
  /\ lastOp' = "Render"
  /\ sinkArg' = <<>>
  /\ inSink' = inSink
  /\ resetArg' = <<>>
  /\ fired' = <<>>
  /\ repeat' = FALSE
  /\ cancelled' = 0
  /\ console' = <<>>
  /\ UNCHANGED <<refs, form, url, timers, clearPending, quiet, formChanged,
                 edits, navigations, config>>

\* The effects of the last render: the hydration effect, the cleanup the
\* publication effect returned when it ran last, the publication effect.
RunEffects ==
  /\ rendered # <<>>
  /\ LET values == rendered[1].values
         params == seen
         \* hydration effect
         currentUrlParams == searchParamsToString(params)
         skip == HydrationSkips(firstRender, currentUrlParams, lastUrlParams)
         restored == RestoredValues(params, ExcludeFields)
         applies == ~skip /\ HydrationApplies(restored)
         updating == IF applies THEN TRUE ELSE isUpdatingFromUrl
         first == IF skip THEN firstRender
                  ELSE FirstRenderAfterPass(firstRender, HydrationApplies(restored))
         \* publication effect: the cleanup of its last run, then its body
         cleaned == IF cleanup THEN CleanupTimeout(timers, timeoutRef) ELSE timers
         blocked == PublicationSkips(updating, first)
         cleared == ClearPreviousTimeout(cleaned, timeoutRef)
         id == NewTimerId(cleared)
     IN /\ lastUrlParams' =
             IF skip THEN lastUrlParams
             ELSE LastUrlAfterHydration(currentUrlParams, lastUrlParams)
        /\ isUpdatingFromUrl' = updating
        /\ firstRender' = first
        \* reset(restoredValues) changes the form store and notifies useWatch.
        /\ form' = IF applies THEN MergeReset(form, restored) ELSE form
        /\ resetArg' = IF applies THEN <<restored>> ELSE <<>>
        /\ clearPending' = (clearPending \/ applies)
        /\ notify' = IF applies THEN "reset" ELSE notify
        /\ formChanged' =
             (formChanged \/ (applies /\ rendered[1].cause # "mount"))
        /\ IF blocked
           THEN /\ timers' = cleaned
                /\ timeoutRef' = timeoutRef
                /\ cleanup' = FALSE
                /\ cancelled' = Cardinality(timers \ cleaned)
           ELSE /\ timers' = cleared \cup
                     {[id |-> id, values |-> values, params |-> params,
                       cause |-> rendered[1].cause,
                       changes |-> SumChanges(timers \ cleared)
                                     + rendered[1].user]}
                /\ timeoutRef' = id
                /\ cleanup' = TRUE
                /\ cancelled' = Cardinality(timers \ cleared)
  /\ rendered' = <<>>
  /\ lastOp' = "Effects"
  /\ sinkArg' = <<>>
  /\ inSink' = inSink
  /\ fired' = <<>>
  /\ repeat' = FALSE
  /\ console' = <<>>
  /\ UNCHANGED <<phase, url, seen, quiet, echo, edits, navigations, config>>

\* Mutant of ClearGuard: the microtask runs and leaves the guard as it is.
ClearGuardKeeps ==
  /\ clearPending
  /\ ~inSink
  /\ isUpdatingFromUrl' = isUpdatingFromUrl
  /\ clearPending' = FALSE
  /\ lastOp' = "ClearGuard"
  /\ sinkArg' = <<>>
  /\ inSink' = inSink
  /\ resetArg' = <<>>
  /\ fired' = <<>>
  /\ repeat' = FALSE
  /\ cancelled' = 0
  /\ console' = <<>>
  /\ UNCHANGED <<phase, firstRender, timeoutRef, lastUrlParams, cleanup, form,
                 url, seen, rendered, timers, notify, quiet, formChanged, echo,
                 edits, navigations, config>>

\* The microtask queued by hydration: isUpdatingFromUrlRef.current = false.
ClearGuard ==
  /\ clearPending
  \* A microtask runs when the running callback has returned.
  /\ ~inSink
  /\ isUpdatingFromUrl' = FALSE
  /\ clearPending' = FALSE
  /\ lastOp' = "ClearGuard"
  /\ sinkArg' = <<>>
  /\ inSink' = inSink
  /\ resetArg' = <<>>
  /\ fired' = <<>>
  /\ repeat' = FALSE
  /\ cancelled' = 0
  /\ console' = <<>>
  /\ UNCHANGED <<phase, firstRender, timeoutRef, lastUrlParams, cleanup, form,
                 url, seen, rendered, timers, notify, quiet, formChanged, echo,
                 edits, navigations, config>>

\* A pending timer fires: the callback given to setTimeout.
TimerFire(t) ==
  /\ t \in timers
  \* The queued microtask runs before the host runs a timer.
  /\ ~clearPending
  /\ ~inSink
  /\ LET newParams == BuildParams(t.params, t.values, ExcludeFields)
         newUrlString == searchParamsToString(newParams)
         commit == CommitNeeded(newUrlString, lastUrlParams)
     IN /\ lastUrlParams' = LastUrlAfterFire(newUrlString, lastUrlParams)
        /\ sinkArg' = IF commit THEN <<newParams>> ELSE <<>>
        \* The callback is inside the call of setSearchParams.
        /\ inSink' = commit
        \* setSearchParams replaces the query string of the outside world.
        /\ url' = IF commit THEN newParams ELSE url
        /\ echo' = (echo \/ commit)
        /\ console' =
             EntriesWarnings(t.values, ExcludeFields, devMode)
               \o (IF LengthWarns(newUrlString, maxUrlLength)
                   THEN <<[kind |-> "length", field |-> <<>>]>> ELSE <<>>)
  /\ timers' = timers \ {t}
  /\ fired' = <<t>>
  /\ repeat' = (quiet = <<t.values>>)
  /\ quiet' = IF t.params = url THEN <<t.values>> ELSE <<>>
  /\ lastOp' = "TimerFire"
  /\ resetArg' = <<>>
  /\ cancelled' = 0
  /\ UNCHANGED <<phase, firstRender, timeoutRef, isUpdatingFromUrl, cleanup,
                 form, seen, rendered, clearPending, notify, formChanged,
                 edits, navigations, config>>

\* The call of adapter.setSearchParams returns, and with it the callback of
\* the timer, whose last statement it is.  Until then the host may have
\* rendered the hook with the committed query string and run its effects
\* (an adapter that renders synchronously), and nothing else has run.
SinkReturn ==
  /\ inSink
  /\ inSink' = FALSE
  /\ lastOp' = "SinkReturn"
  /\ sinkArg' = <<>>
  /\ resetArg' = <<>>
  /\ fired' = <<>>
  /\ repeat' = FALSE
  /\ cancelled' = 0
  /\ console' = <<>>
  /\ UNCHANGED <<phase, refs, form, url, seen, rendered, timers, clearPending,
                 notify, quiet, formChanged, echo, edits, navigations, config>>

\* The user sets a field of the form: setValue(field, value).
UserSetValue(field, value) ==
  /\ phase = "mounted"
  /\ ~clearPending
  /\ ~inSink
  /\ edits < MaxEdits
  /\ edits' = edits + 1
  /\ form' = ObjectSet(form, field, value)
  /\ notify' = "user"
  /\ formChanged' = TRUE
  /\ lastOp' = "UserSetValue"
  /\ sinkArg' = <<>>
  /\ inSink' = inSink
  /\ resetArg' = <<>>
  /\ fired' = <<>>
  /\ repeat' = FALSE
  /\ cancelled' = 0
  /\ console' = <<>>
  /\ UNCHANGED <<phase, refs, url, seen, rendered, timers, clearPending,
                 quiet, echo, navigations, config>>

\* The outside world changes the query string: navigation, back and forward.
ExternalUrlChange(params) ==
  /\ ~clearPending
  /\ ~inSink
  /\ params # url
  /\ navigations < MaxNavigations
  /\ navigations' = navigations + 1
  /\ url' = params
  /\ quiet' = <<>>
  /\ lastOp' = "ExternalUrlChange"
  /\ sinkArg' = <<>>
  /\ inSink' = inSink
  /\ resetArg' = <<>>
  /\ fired' = <<>>
  /\ repeat' = FALSE
  /\ cancelled' = 0
  /\ echo' = FALSE
  /\ console' = <<>>
  /\ UNCHANGED <<phase, refs, form, seen, rendered, timers, clearPending,
                 notify, formChanged, edits, config>>

\* The host unmounts the component: the cleanup of the publication effect.
Unmount ==
  /\ phase = "mounted"
  \* The effects of a render run before the host unmounts the component.
  /\ rendered = <<>>
  /\ ~inSink
  /\ phase' = "unmounted"
  /\ timers' = IF cleanup THEN CleanupTimeout(timers, timeoutRef) ELSE timers
  /\ cancelled' = Cardinality(timers \ timers')
  /\ cleanup' = FALSE
  /\ notify' = "none"
  /\ lastOp' = "Unmount"
  /\ sinkArg' = <<>>
  /\ inSink' = inSink
  /\ resetArg' = <<>>
  /\ fired' = <<>>
  /\ repeat' = FALSE
  /\ console' = <<>>
  /\ UNCHANGED <<firstRender, timeoutRef, lastUrlParams, isUpdatingFromUrl, form,
                 url, seen, rendered, clearPending, quiet, formChanged, echo,
                 edits, navigations, config>>

FormFields == {K_name, K_password}

Next ==
  \/ Render
  \/ RunEffects
  \/ ClearGuard
  \/ \E t \in timers : TimerFire(t)
  \/ SinkReturn
  \/ \E field \in FormFields : \E value \in UserValues(field) :
       UserSetValue(field, value)
  \/ \E params \in ExternalUrls : ExternalUrlChange(params)
  \/ Unmount

Spec == Init /\ [][Next]_vars

(***************************************************************************)
(* The hook under the scheduling of its host.  The host renders the hook   *)
(* when the form or the query string it was rendered with has changed; the *)
(* microtask queue runs the queued clear of the guard; a timer that stays  *)
(* pending fires when its delay has passed.                                *)
(***************************************************************************)
\* The user's edits and the navigations of one run under this scheduling.
LiveMaxEdits == 2

LiveMaxNavigations == 2

\* The host has a reason to render: the mount, a form change that was not
\* rendered yet, or a query string other than the one of the last render.
RenderNeeded == phase = "init" \/ notify # "none" \/ url # seen

LiveRender == RenderNeeded /\ Render

LiveTimerFire == \E t \in timers : TimerFire(t)

LiveUserSetValue ==
  /\ edits < LiveMaxEdits
  /\ \E field \in FormFields : \E value \in UserValues(field) :
       UserSetValue(field, value)

LiveExternalUrlChange ==
  /\ navigations < LiveMaxNavigations
  /\ \E params \in ExternalUrls : ExternalUrlChange(params)

LiveNext ==
  \/ LiveRender
  \/ RunEffects
  \/ ClearGuard
  \/ LiveTimerFire
  \/ SinkReturn
  \/ LiveUserSetValue
  \/ LiveExternalUrlChange
  \/ Unmount

\* A step of RunEffects, told by the variables that name it: RunEffects is
\* the step that sets lastOp to "Effects" and takes the render that awaits
\* its effects.
EffectsStep ==
  /\ rendered # <<>>
  /\ lastOp' = "Effects"
  /\ rendered' = <<>>

\* A step of LiveTimerFire, told by the variables that name it: TimerFire is
\* the step that sets lastOp to "TimerFire" and takes one timer from the
\* pending ones.
TimerStep ==
  /\ ~clearPending
  /\ ~inSink
  /\ lastOp' = "TimerFire"
  /\ \E t \in timers : timers' = timers \ {t}

\* Weak fairness of LiveRender, of RunEffects, of ClearGuard, of
\* LiveTimerFire and of SinkReturn (a call returns).  The fairness of RunEffects and LiveTimerFire is written
\* over EffectsStep and TimerStep, which are enabled in the same states and
\* taken by the same steps of LiveNext.
LiveSpec ==
  /\ Init
  /\ [][LiveNext]_vars
  /\ WF_vars(LiveRender)
  /\ WF_<<lastOp, rendered>>(EffectsStep)
  /\ WF_vars(ClearGuard)
  /\ WF_<<lastOp, timers>>(TimerStep)
  /\ WF_vars(SinkReturn)

(***************************************************************************)
(* The hook under the wider inputs: it is constructed with one of the      *)
(* wider forms and query strings, in production with the default           *)
(* maxUrlLength or in development with a short one; the user sets the      *)
(* field name once.                                                        *)
(***************************************************************************)
WideInit ==
  /\ phase = "init"
  /\ firstRender = TRUE
  /\ timeoutRef = 0
  /\ lastUrlParams = <<>>
  /\ isUpdatingFromUrl = FALSE
  /\ cleanup = FALSE
  /\ form \in WideForms
  /\ url \in WideUrls
  /\ seen = <<>>
  /\ rendered = <<>>
  /\ timers = {}
  /\ clearPending = FALSE
  /\ notify = "none"
  /\ lastOp = "Init"
  /\ sinkArg = <<>>
  /\ inSink = FALSE
  /\ resetArg = <<>>
  /\ fired = <<>>
  /\ repeat = FALSE
  /\ quiet = <<>>
  /\ formChanged = FALSE
  /\ cancelled = 0
  /\ echo = FALSE
  /\ edits = MaxEdits - 1
  /\ navigations = MaxNavigations
  /\ \E c \in WideConfigs : devMode = c[1] /\ maxUrlLength = c[2]
  /\ console = <<>>

WideNext ==
  \/ Render
  \/ RunEffects
  \/ ClearGuard
  \/ \E t \in timers : TimerFire(t)
  \/ SinkReturn
  \/ \E value \in WideUserValues : UserSetValue(K_name, value)

WideSpec == WideInit /\ [][WideNext]_vars

(***************************************************************************)
(* The hook loaded with query strings whose JSON values hold objects       *)
(* inside objects and arrays, some with the keys safeJsonParse looks for,  *)
(* and with query strings whose keys are array indices or __proto__ and    *)
(* whose values hold characters that are percent-encoded.                  *)
(***************************************************************************)
\* An object without a dangerous key of its own that holds an object with one.
NestedObject ==
  Obj(<<<<K_a, Obj(<<<<K_proto, Num(1)>>, <<K_b, Num(2)>>>>)>>,
        <<K_b, Str(<<"v">>)>>>>)

\* An array that holds an object with dangerous keys, one of them an object
\* with another.
NestedArray ==
  Arr(<<Obj(<<<<K_constructor, Obj(<<<<K_prototype, Num(1)>>>>)>>,
              <<K_a, Num(2)>>>>),
        Num(3)>>)

\* An object with a dangerous key of its own that holds an object with one.
NestedDangerous ==
  Obj(<<<<K_prototype, Num(1)>>,
        <<K_a, Obj(<<<<K_prototype, Arr(<<Obj(<<<<K_proto, Null>>>>)>>)>>>>)>>>>)

NestedUrls ==
  { <<<<K_data, JsonStringify(NestedObject)>>,
      <<K_name, JsonStringify(NestedArray)>>>>,
    <<<<K_data, JsonStringify(NestedDangerous)>>>>,
    <<<<K_name, JsonStringify(NestedDangerous)>>,
      <<K_data, JsonStringify(NestedArray)>>>>,
    <<<<K_data, JsonStringify(Obj(<<<<K_a, Num(1)>>>>))>>,
      <<K_name, <<"7">>>>>>,
    \* ?__proto__=x
    <<<<K_proto, <<"x">>>>>>,
    \* ?b=1&1=2&name=a@b
    <<<<K_b, <<"1">>>>, <<<<"1">>, <<"2">>>>, <<K_name, <<"a", "@", "b">>>>>>,
    \* ?data={"b":1,"10":[{"x":1,"9":2}],"9":2}&__proto__=x
    <<<<K_data, <<"{">> \o JsonQuote(K_b) \o <<":", "1", ",">>
                  \o JsonQuote(<<"1", "0">>) \o <<":", "[", "{">>
                  \o JsonQuote(<<"x">>) \o <<":", "1", ",">>
                  \o JsonQuote(<<"9">>) \o <<":", "2", "}", "]", ",">>
                  \o JsonQuote(<<"9">>) \o <<":", "2", "}">>>>,
      <<K_proto, <<"x">>>>>>,
    \* ?name=a@b&__proto__=1
    <<<<K_name, <<"a", "@", "b">>>>, <<K_proto, <<"1">>>>>> }

NestedInit ==
  /\ phase = "init"
  /\ firstRender = TRUE
  /\ timeoutRef = 0
  /\ lastUrlParams = <<>>
  /\ isUpdatingFromUrl = FALSE
  /\ cleanup = FALSE
  /\ form \in WideForms
  /\ url \in NestedUrls
  /\ seen = <<>>
  /\ rendered = <<>>
  /\ timers = {}
  /\ clearPending = FALSE
  /\ notify = "none"
  /\ lastOp = "Init"
  /\ sinkArg = <<>>
  /\ inSink = FALSE
  /\ resetArg = <<>>
  /\ fired = <<>>
  /\ repeat = FALSE
  /\ quiet = <<>>
  /\ formChanged = FALSE
  /\ cancelled = 0
  /\ echo = FALSE
  /\ edits = MaxEdits - 1
  /\ navigations = MaxNavigations
  /\ devMode = FALSE
  /\ maxUrlLength = DEFAULT_MAX_URL_LENGTH
  /\ console = <<>>

NestedSpec == NestedInit /\ [][WideNext]_vars

(***************************************************************************)
(* Properties                                                              *)
(***************************************************************************)
HasExcludedParam(params) == \E f \in ExcludeFields : ParamsHas(params, f)

\* C1: every mapping the timer callback passes to setSearchParams has no
\* entry for a field of excludeFields, whatever the form holds and whatever
\* the snapshot it cloned held.
C1_SinkCarriesNoExcludedField ==
  sinkArg # <<>> => ~HasExcludedParam(sinkArg[1])

\* A commit whose snapshot had the excluded key and whose form snapshot held
\* a non-empty value for it.
C1_Witness ==
  /\ sinkArg # <<>>
  /\ fired # <<>>
  /\ ParamsHas(fired[1].params, K_password)
  /\ ~IsEmptyValue(ObjectGet(fired[1].values, K_password))

\* C2: the mapping a hydration pass hands to reset has no key of
\* excludeFields, and the pass leaves the form value of every excluded field
\* as it was.
C2_HydrationSkipsExcluded ==
  [][(lastOp' = "Effects" /\ resetArg' # <<>>)
       => \A f \in ExcludeFields :
            /\ ~ObjectHas(resetArg'[1], f)
            /\ ObjectGet(form', f) = ObjectGet(form, f)]_vars

\* A pass that applied values while the snapshot held a non-empty value for
\* the excluded key.
C2_Witness ==
  /\ lastOp = "Effects"
  /\ resetArg # <<>>
  /\ ParamsHas(seen, K_password)
  /\ ParamsGet(seen, K_password) # <<>>

\* C3 as claimed: after any timer fire, committing or not, the external query
\* string has no entry for a field of excludeFields.
C3_UrlCleanAfterAnyFire ==
  lastOp = "TimerFire" => ~HasExcludedParam(url)

\* C3 as amended: after a fire that commits, and after a fire that decides
\* no-op while the snapshot it cloned is still the external query string, the
\* external query string has no entry for a field of excludeFields.
C3_UrlCleanAfterFireOnCurrentSnapshot ==
  (lastOp = "TimerFire" /\ (sinkArg # <<>> \/ fired[1].params = url))
    => ~HasExcludedParam(url)

\* A fire that cloned a snapshot in which an external change had put the
\* excluded key.
C3_Witness ==
  /\ lastOp = "TimerFire"
  /\ navigations > 0
  /\ ParamsHas(fired[1].params, K_password)
  /\ (sinkArg # <<>> \/ fired[1].params = url)

\* C4: the only timer pending after the effects of a render is the one
\* that holds the form snapshot of that render, no other step schedules a
\* timer, and a timer that fires is the only one pending: it publishes the
\* last form snapshot the publication effect observed, every earlier timer
\* of the burst is gone, and nothing is left pending that could publish an
\* intermediate snapshot.
C4_BurstPublishesLastSnapshotOnce ==
  [][/\ lastOp' = "Effects"
          => \A t \in timers' : t.values = rendered[1].values
     /\ lastOp' # "Effects" => timers' \subseteq timers
     /\ lastOp' = "TimerFire" => (timers = {fired'[1]} /\ timers' = {})]_vars

\* A committing fire that stands for at least two observed form changes.
C4_Witness ==
  /\ lastOp = "TimerFire"
  /\ fired[1].changes >= 2
  /\ sinkArg # <<>>

\* C5: once the instance is unmounted no timer is pending and the sink is
\* not called.
C5_NothingAfterUnmount ==
  phase = "unmounted" => (timers = {} /\ sinkArg = <<>>)

\* The unmount cancelled a pending timer.
C5_Witness ==
  /\ phase = "unmounted"
  /\ lastOp = "Unmount"
  /\ cancelled > 0

\* C6: firstRender is true only before the first hydration pass has
\* completed, and while it is true no timer is scheduled and the sink has
\* not been called.
C6_NoPublicationBeforeFirstHydration ==
  firstRender =>
    /\ phase = "init" \/ rendered # <<>>
    /\ timers = {}
    /\ timeoutRef = 0
    /\ sinkArg = <<>>

\* Before the first pass, after the body of the first render, with a
\* default value and a query string that a publication would have had to
\* write.
C6_Witness ==
  /\ firstRender
  /\ phase = "mounted"
  /\ ~IsEmptyValue(ObjectGet(form, K_name))
  /\ url # <<>>

\* C7 as claimed: as long as no form value has changed after mount, no timer
\* is scheduled and the sink is not called.
C7_NoPublicationWithoutFormChange ==
  (phase = "mounted" /\ ~formChanged) => (timers = {} /\ sinkArg = <<>>)

\* C8 as claimed: a fire that publishes the form mapping of the fire before
\* it, with no change of the URL by the outside world during the two debounce
\* windows, does not call the sink.
C8_SecondPublicationIsSkipped ==
  (lastOp = "TimerFire" /\ repeat) => sinkArg = <<>>

\* C9 as claimed: a timer scheduled by the render of the reset's own change
\* notification never calls the sink.
C9_ResetNeverPublishes ==
  sinkArg # <<>> => fired[1].cause # "reset"

\* C10 as claimed: the effects of the render that observes the URL the hook
\* has just committed do not call reset, do not set the guard and leave
\* lastUrlParamsRef alone.
C10_OwnCommitIsNotHydrated ==
  [][(lastOp' = "Effects" /\ rendered[1].echo)
       => /\ resetArg' = <<>>
          /\ isUpdatingFromUrl' = isUpdatingFromUrl
          /\ lastUrlParams' = lastUrlParams]_vars

(***************************************************************************)
(* Properties of the publication and hydration of wider inputs             *)
(***************************************************************************)
\* C11 as claimed: every key of the snapshot a committing fire cloned that
\* is not excluded and is not a field the user sets is in the committed
\* mapping with exactly the string value it had in the snapshot.
C11_UneditedKeysKeepSnapshotValue ==
  sinkArg # <<>> =>
    \A i \in 1..Len(fired[1].params) :
      LET key == fired[1].params[i][1]
      IN (key \notin ExcludeFields /\ key \notin FormFields)
           => /\ ParamsHas(sinkArg[1], key)
              /\ ParamsGet(sinkArg[1], key) = fired[1].params[i][2]

\* C12: a mapping the timer callback commits has no entry, empty or not, for
\* a non-excluded form field whose value is null, undefined or "".
C12_EmptyFieldsAreAbsent ==
  sinkArg # <<>> =>
    \A i \in 1..Len(fired[1].values) :
      (/\ fired[1].values[i][1] \notin ExcludeFields
       /\ IsEmptyValue(fired[1].values[i][2]))
        => ~ParamsHas(sinkArg[1], fired[1].values[i][1])

\* A commit whose snapshot held a non-empty value for a field the user has
\* set to null.
C12_Witness ==
  /\ sinkArg # <<>>
  /\ ObjectGet(fired[1].values, K_name) = Null
  /\ ObjectHas(fired[1].values, K_name)
  /\ ParamsHas(fired[1].params, K_name)
  /\ ParamsGet(fired[1].params, K_name) # <<>>

RECURSIVE JsonRepresentable(_)
\* JSON.stringify writes the whole value: it holds no cycle, no undefined and
\* no object that is neither an array nor a plain object.
JsonRepresentable(value) ==
  CASE value.t \in {"cyclic", "undefined", "other"} -> FALSE
    [] value.t = "array" ->
         \A i \in 1..Len(value.items) : JsonRepresentable(value.items[i])
    [] value.t = "object" ->
         \A i \in 1..Len(value.entries) :
           JsonRepresentable(value.entries[i][2])
    [] OTHER -> TRUE

\* The string a commit carries for the key decodes to the value.
DecodesTo(params, key, value) ==
  ParamsHas(params, key) /\ safeJsonParse(ParamsGet(params, key)) = value

\* C13 as claimed: for every JSON-representable array or plain object the
\* timer callback encodes into a commit, whatever its keys are, decoding the
\* committed string gives the value back.
C13_RoundTripAnyKeys ==
  sinkArg # <<>> =>
    \A i \in 1..Len(fired[1].values) :
      LET key == fired[1].values[i][1]
          value == fired[1].values[i][2]
      IN (/\ key \notin ExcludeFields
          /\ value.t \in {"array", "object"}
          /\ JsonRepresentable(value))
           => DecodesTo(sinkArg[1], key, value)

\* C13 as amended: the same for every JSON-representable array, and for every
\* JSON-representable plain object that has no top-level key __proto__,
\* constructor or prototype.
C13_RoundTripWithoutDangerousKeys ==
  sinkArg # <<>> =>
    \A i \in 1..Len(fired[1].values) :
      LET key == fired[1].values[i][1]
          value == fired[1].values[i][2]
      IN (/\ key \notin ExcludeFields
          /\ value.t \in {"array", "object"}
          /\ JsonRepresentable(value)
          /\ ~(value.t = "object" /\ HasDangerousKeys(value.entries)))
           => DecodesTo(sinkArg[1], key, value)

\* A commit of a nested object: a key of the object holds an array.
C13_Witness ==
  /\ sinkArg # <<>>
  /\ ObjectGet(fired[1].values, K_data).t = "object"
  /\ ObjectGet(ObjectGet(fired[1].values, K_data).entries, K_b).t = "array"
  /\ ParamsHas(sinkArg[1], K_data)

\* The pair is the last one of a key that is not excluded with a value that
\* is not empty.
IsLastNonEmpty(params, i) ==
  /\ params[i][1] \notin ExcludeFields
  /\ params[i][2] # <<>>
  /\ \A j \in (i + 1)..Len(params) :
       params[j][1] = params[i][1] => params[j][2] = <<>>

\* The pair is the one hydration restores its key from: the last one of a key
\* that is not excluded with a value that is not empty, the key not being
\* __proto__ (which names no key of the restored mapping).
IsRestored(params, i) ==
  /\ IsLastNonEmpty(params, i)
  /\ params[i][1] # K_proto

\* C14: when hydration decodes a query value that is the JSON text of a plain
\* object, the value it hands to reset is an object without a top-level key
\* __proto__, constructor or prototype, and every other top-level key of the
\* parsed object is in it with its parsed value.
C14_DecodedObjectIsSanitized ==
  (lastOp = "Effects" /\ resetArg # <<>>) =>
    \A i \in 1..Len(seen) :
      (/\ IsRestored(seen, i)
       /\ JsonParses(seen[i][2])
       /\ JsonParse(seen[i][2]).t = "object")
        => LET parsed == JsonParse(seen[i][2]).entries
               result == ObjectGet(resetArg[1], seen[i][1])
           IN /\ result.t = "object"
              /\ \A k \in DangerousKeys : ~ObjectHas(result.entries, k)
              /\ \A j \in 1..Len(parsed) :
                   parsed[j][1] \notin DangerousKeys
                     => /\ ObjectHas(result.entries, parsed[j][1])
                        /\ ObjectGet(result.entries, parsed[j][1]) = parsed[j][2]

\* A pass that decoded an object with the key __proto__ and another key.
C14_Witness ==
  /\ lastOp = "Effects"
  /\ resetArg # <<>>
  /\ ParamsHas(seen, K_data)
  /\ JsonParses(ParamsGet(seen, K_data))
  /\ JsonParse(ParamsGet(seen, K_data)).t = "object"
  /\ ObjectHas(JsonParse(ParamsGet(seen, K_data)).entries, K_proto)
  /\ ObjectHas(JsonParse(ParamsGet(seen, K_data)).entries, K_b)

\* C15 as claimed: decode returns a query value that is not valid JSON as
\* the string it is, and a hydration pass over a query string with such a
\* value completes (the first render is marked complete) and hands to reset
\* the decoded value of every other key that is not excluded, whatever its
\* name.
C15_InvalidJsonIsRestoredAsString ==
  [][(/\ lastOp' = "Effects"
      /\ ~HydrationSkips(firstRender, searchParamsToString(seen), lastUrlParams)
      /\ \E i \in 1..Len(seen) :
           IsLastNonEmpty(seen, i) /\ ~JsonParses(seen[i][2]))
       => /\ ~firstRender'
          /\ \A i \in 1..Len(seen) :
               IsLastNonEmpty(seen, i)
                 => IF JsonParses(seen[i][2])
                    THEN /\ resetArg' # <<>>
                         /\ ObjectHas(resetArg'[1], seen[i][1])
                         /\ ObjectGet(resetArg'[1], seen[i][1]) =
                              safeJsonParse(seen[i][2])
                    ELSE safeJsonParse(seen[i][2]) = Str(seen[i][2])]_vars

\* The form snapshot has a non-excluded array or object that JSON.stringify
\* cannot write.
HasUnserializable(vals) ==
  \E i \in 1..Len(vals) :
    vals[i][1] \notin ExcludeFields /\ SerializeWarns(vals[i][2])

\* C16: a fire whose form snapshot holds an array or object that cannot be
\* serialised still compares the working copy with the last-known URL and
\* commits exactly when they differ; the committed mapping has no entry for
\* that field and has every other non-excluded, non-empty field with its
\* serialised value.
C16_UnserializableFieldIsDropped ==
  [][(lastOp' = "TimerFire" /\ HasUnserializable(fired'[1].values))
       => /\ (sinkArg' # <<>>) = (lastUrlParams' # lastUrlParams)
          /\ sinkArg' # <<>> =>
               /\ lastUrlParams' = searchParamsToString(sinkArg'[1])
               /\ \A i \in 1..Len(fired'[1].values) :
                    LET key == fired'[1].values[i][1]
                        value == fired'[1].values[i][2]
                    IN key \notin ExcludeFields =>
                         IF IsEmptyValue(value) \/ SerializeWarns(value)
                         THEN ~ParamsHas(sinkArg'[1], key)
                         ELSE /\ ParamsHas(sinkArg'[1], key)
                              /\ ParamsGet(sinkArg'[1], key) =
                                   safeSerialize(value)]_vars

\* A commit whose form snapshot held a cyclic object for a key of the
\* snapshot of the URL, reported on the console, and a field after it that
\* was published.
C16_Witness ==
  /\ sinkArg # <<>>
  /\ ObjectGet(fired[1].values, K_data) = Cyclic("object")
  /\ ParamsHas(fired[1].params, K_data)
  /\ ~ParamsHas(sinkArg[1], K_data)
  /\ ParamsHas(sinkArg[1], K_name)
  /\ \E i \in 1..Len(console) :
       console[i] = [kind |-> "serialize", field |-> K_data]

\* The console of the last step has the warning about the length of the URL.
HasLengthWarning(log) == \E i \in 1..Len(log) : log[i].kind = "length"

\* C17: the timer callback warns about the length exactly when the canonical
\* string of its working copy is longer than maxUrlLength, and then calls the
\* sink with the whole working copy exactly when that string differs from the
\* last-known query string.
C17_LengthWarningDoesNotStopCommit ==
  [][lastOp' = "TimerFire"
       => LET working == BuildParams(fired'[1].params, fired'[1].values,
                                      ExcludeFields)
              urlString == searchParamsToString(working)
          IN /\ HasLengthWarning(console') = (Len(urlString) > maxUrlLength)
             /\ Len(urlString) > maxUrlLength =>
                  sinkArg' = IF urlString # lastUrlParams
                             THEN <<working>> ELSE <<>>]_vars

\* A commit of a query string longer than a maxUrlLength below the default.
C17_Witness ==
  /\ lastOp = "TimerFire"
  /\ sinkArg # <<>>
  /\ maxUrlLength < DEFAULT_MAX_URL_LENGTH
  /\ Len(searchParamsToString(sinkArg[1])) > maxUrlLength
  /\ HasLengthWarning(console)

\* The pairs of a key in a query string, in their order.
PairsOf(params, key) == SelectSeq(params, LAMBDA pair : pair[1] = key)

\* C18: the mapping a fire commits is determined by the snapshot, the form
\* values and excludeFields alone, in development mode and outside it, for
\* names the heuristic matches and names it does not: every non-excluded
\* form field is absent when its value is empty or cannot be serialised and
\* otherwise carries its serialised value, and every other non-excluded key
\* has the pairs it had in the snapshot.
C18_CommitIgnoresHeuristic ==
  sinkArg # <<>> =>
    /\ \A i \in 1..Len(fired[1].values) :
         LET key == fired[1].values[i][1]
             value == fired[1].values[i][2]
         IN key \notin ExcludeFields =>
              IF IsEmptyValue(value) \/ safeSerialize(value) = <<>>
              THEN ~ParamsHas(sinkArg[1], key)
              ELSE PairsOf(sinkArg[1], key) = <<<<key, safeSerialize(value)>>>>
    /\ \A i \in 1..Len(fired[1].params) :
         LET key == fired[1].params[i][1]
         IN (key \notin ExcludeFields /\ ~ObjectHas(fired[1].values, key))
              => PairsOf(sinkArg[1], key) = PairsOf(fired[1].params, key)

\* A commit in development mode that warned about a field and published its
\* value.
C18_Witness ==
  /\ sinkArg # <<>>
  /\ devMode
  /\ \E i \in 1..Len(console) :
       console[i] = [kind |-> "sensitive", field |-> K_userToken]
  /\ ParamsHas(sinkArg[1], K_userToken)
  /\ ParamsGet(sinkArg[1], K_userToken) =
       safeSerialize(ObjectGet(fired[1].values, K_userToken))

\* C19: the sensitive-field warnings of a fire are, in development mode,
\* one for each non-excluded field of the form snapshot whose lower-cased
\* name includes a lower-cased pattern, in the order of the fields; outside
\* development mode there is none, and there is never one for an excluded
\* field.
C19_SensitiveWarnings ==
  lastOp = "TimerFire" =>
    LET warned == SelectSeq(console, LAMBDA e : e.kind = "sensitive")
        expected ==
          SelectSeq(fired[1].values,
                    LAMBDA entry : /\ devMode
                                   /\ entry[1] \notin ExcludeFields
                                   /\ IsSensitive(entry[1]))
    IN /\ Len(warned) = Len(expected)
       /\ \A i \in 1..Len(warned) : warned[i].field = expected[i][1]
       /\ \A i \in 1..Len(warned) : warned[i].field \notin ExcludeFields
       /\ ~devMode => warned = <<>>

\* A fire in development mode over a form with an excluded field of a
\* sensitive name and a field whose name matches only after lower-casing and
\* whose value is empty: the warning is for the second.
C19_Witness ==
  /\ lastOp = "TimerFire"
  /\ devMode
  /\ ObjectHas(fired[1].values, K_password)
  /\ IsSensitive(K_password)
  /\ IsEmptyValue(ObjectGet(fired[1].values, K_userToken))
  /\ ~(\E i \in 1..Len(SENSITIVE_FIELD_PATTERNS) :
         Includes(K_userToken, SENSITIVE_FIELD_PATTERNS[i]))
  /\ SelectSeq(console, LAMBDA e : e.kind = "sensitive")
       = <<[kind |-> "sensitive", field |-> K_userToken]>>

\* The keys hydration restores from a query string.
RestoredKeys(params) ==
  {params[i][1] : i \in {j \in 1..Len(params) : IsRestored(params, j)}}

\* The keys of the snapshot that are not excluded and have a value that is
\* not empty.
NonEmptyKeys(params) ==
  {params[i][1] : i \in {j \in 1..Len(params) :
                          /\ params[j][1] \notin ExcludeFields
                          /\ params[j][2] # <<>>}}

\* C20 as claimed: a hydration pass that is not skipped builds the mapping
\* whose keys are the non-excluded keys of the snapshot that have a non-empty
\* value, whatever their names, each with the decoded last non-empty value of
\* the key; when it has a key, reset is called with it and the form then
\* holds these values, and when it has none reset is not called and the form
\* is left as it is.
C20_RestoredMapping ==
  [][(/\ lastOp' = "Effects"
      /\ ~HydrationSkips(firstRender, searchParamsToString(seen), lastUrlParams))
       => IF NonEmptyKeys(seen) = {}
          THEN resetArg' = <<>> /\ form' = form
          ELSE /\ resetArg' # <<>>
               /\ ObjectKeys(resetArg'[1]) = NonEmptyKeys(seen)
               /\ Len(resetArg'[1]) = Cardinality(NonEmptyKeys(seen))
               /\ \A i \in 1..Len(seen) :
                    (/\ seen[i][1] \in NonEmptyKeys(seen)
                     /\ seen[i][2] # <<>>
                     /\ \A j \in (i + 1)..Len(seen) :
                          seen[j][1] = seen[i][1] => seen[j][2] = <<>>)
                      => /\ ObjectGet(resetArg'[1], seen[i][1]) =
                              safeJsonParse(seen[i][2])
                         /\ ObjectGet(form', seen[i][1]) =
                              safeJsonParse(seen[i][2])]_vars

(***************************************************************************)
(* Properties of the state of the two effects                              *)
(***************************************************************************)
\* C21: hydration merges: over a render, every form field that is not a key
\* of the restored mapping (excluded, absent from the snapshot, or empty
\* there) keeps its value and its place, and a render whose snapshot restores
\* no key leaves the form as it is and does not set the guard.
C21_HydrationMerges ==
  [][lastOp' = "Effects"
       => /\ Len(form') >= Len(form)
          /\ \A i \in 1..Len(form) :
               form[i][1] \notin RestoredKeys(seen) => form'[i] = form[i]
          /\ RestoredKeys(seen) = {}
               => /\ form' = form
                  /\ resetArg' = <<>>
                  /\ isUpdatingFromUrl' = isUpdatingFromUrl
                  /\ clearPending' = clearPending]_vars

\* A pass that restored a key from a snapshot that also has the excluded
\* password and an empty name and has no userToken: the three fields hold
\* their values of before.
C21_Witness ==
  /\ lastOp = "Effects"
  /\ resetArg # <<>>
  /\ ParamsHas(seen, K_password)
  /\ ObjectGet(form, K_password) # Str(ParamsGet(seen, K_password))
  /\ \E i \in 1..Len(seen) : seen[i] = <<K_name, <<>>>>
  /\ ObjectGet(form, K_name) = Str(<<"a">>)
  /\ ~ParamsHas(seen, K_userToken)
  /\ ObjectGet(form, K_userToken) = Str(<<"t">>)

\* The canonical decimal numeral of an integer: "0", or an optional "-" and
\* digits that do not start with "0".
IsIntegerNumeral(s) ==
  LET digits == IF s # <<>> /\ s[1] = "-" THEN Tail(s) ELSE s
  IN /\ digits # <<>>
     /\ \A i \in 1..Len(digits) : digits[i] \in DigitChars
     /\ Len(digits) > 1 => digits[1] # "0"
     /\ s[1] = "-" => digits # <<"0">>

\* The integer a canonical numeral denotes.
IntegerOf(s) ==
  IF s[1] = "-" THEN Num(-DecimalValue(Tail(s))) ELSE Num(DecimalValue(s))

\* C22: a hydration pass restores the value "true" as the boolean true,
\* "false" as the boolean false and a canonical integer numeral as that
\* number; a commit writes, for a boolean or integer field, "true", "false"
\* or the canonical numeral, and decoding what it writes gives the value
\* back.
C22_BooleansAndIntegers ==
  [][/\ lastOp' = "Effects" /\ resetArg' # <<>>
          => \A i \in 1..Len(seen) :
               IsRestored(seen, i)
                 => LET got == ObjectGet(form', seen[i][1])
                    IN /\ seen[i][2] = S_true => got = Bool(TRUE)
                       /\ seen[i][2] = S_false => got = Bool(FALSE)
                       /\ IsIntegerNumeral(seen[i][2])
                            => got = IntegerOf(seen[i][2])
     /\ lastOp' = "TimerFire" /\ sinkArg' # <<>>
          => \A i \in 1..Len(fired'[1].values) :
               LET key == fired'[1].values[i][1]
                   value == fired'[1].values[i][2]
                   written == ParamsGet(sinkArg'[1], key)
               IN (/\ key \notin ExcludeFields
                   /\ value.t = "boolean" \/ (value.t = "number" /\ value.d = 0))
                    => /\ ParamsHas(sinkArg'[1], key)
                       /\ value = Bool(TRUE) => written = S_true
                       /\ value = Bool(FALSE) => written = S_false
                       /\ value.t = "number"
                            => IsIntegerNumeral(written)
                                 /\ IntegerOf(written) = value
                       /\ safeJsonParse(written) = value]_vars

\* A commit of a form that was hydrated from "true", "30", "0" and "-5": it
\* holds the booleans and the numbers, and the commit writes them back.
C22_Witness ==
  /\ lastOp = "TimerFire"
  /\ sinkArg # <<>>
  /\ ObjectGet(fired[1].values, K_data) = Bool(TRUE)
  /\ ObjectGet(fired[1].values, K_userToken) = Num(30)
  /\ ObjectGet(fired[1].values, K_page) = Num(0)
  /\ ObjectGet(fired[1].values, K_a) = Num(-5)
  /\ ParamsGet(sinkArg[1], K_data) = S_true
  /\ ParamsGet(sinkArg[1], K_userToken) = <<"3", "0">>
  /\ ParamsGet(sinkArg[1], K_page) = <<"0">>
  /\ ParamsGet(sinkArg[1], K_a) = <<"-", "5">>

\* C23: a commit writes, for a field that holds an object that is neither an
\* array nor a plain object, the key with the String(value) form of the
\* object, which is not its JSON text.
C23_OtherObjectsAsString ==
  sinkArg # <<>> =>
    \A i \in 1..Len(fired[1].values) :
      LET key == fired[1].values[i][1]
          value == fired[1].values[i][2]
      IN (key \notin ExcludeFields /\ value.t = "other")
           => /\ ParamsHas(sinkArg[1], key)
              /\ ParamsGet(sinkArg[1], key) = value.str
              /\ ParamsGet(sinkArg[1], key) # value.json

\* A commit of a form whose field data holds the date.
C23_Witness ==
  /\ sinkArg # <<>>
  /\ ObjectGet(fired[1].values, K_data) = DateValue
  /\ ParamsGet(sinkArg[1], K_data) = DateValue.str

\* C24 as claimed: a commit writes, for a field that holds an array or a
\* plain object that JSON.stringify can write, the base64 form of the
\* URI-component-encoded JSON text, and not the JSON text.
C24_StructuredValuesAreBase64 ==
  sinkArg # <<>> =>
    \A i \in 1..Len(fired[1].values) :
      LET key == fired[1].values[i][1]
          value == fired[1].values[i][2]
      IN (/\ key \notin ExcludeFields
          /\ value.t \in {"array", "object"}
          /\ ~JsonStringifyThrows(value))
           => /\ ParamsHas(sinkArg[1], key)
              /\ ParamsGet(sinkArg[1], key) = Base64Json(value)
              /\ ParamsGet(sinkArg[1], key) # JsonStringify(value)

\* C25 as claimed: a hydration pass restores a parameter that holds the
\* base64 form of the URI-component-encoded JSON text of the array as the
\* array, not as the base64 string.
C25_Base64IsDecoded ==
  (lastOp = "Effects" /\ resetArg # <<>>) =>
    \A i \in 1..Len(seen) :
      (IsRestored(seen, i) /\ seen[i][2] = Base64Json(Base64Payload))
        => /\ ObjectGet(resetArg[1], seen[i][1]) = Base64Payload
           /\ ObjectGet(form, seen[i][1]) = Base64Payload

\* An external change of the query string awaits its hydration pass: the
\* outside world has set a query string the hook has not rendered, and its
\* string is not the last known one.
AwaitsHydration ==
  /\ phase = "mounted"
  /\ url # seen
  /\ ~echo
  /\ searchParamsToString(url) # lastUrlParams

\* C26 as claimed, its safety half: while an external change of the query
\* string awaits its hydration pass, a timer that fires leaves the query
\* string as the outside world has set it.
C26_PendingPublicationKeepsExternalUrl ==
  [][(AwaitsHydration /\ lastOp' = "TimerFire") => url' = url]_vars

\* C27: firstRender.current changes only from true to false, and only in the
\* first render; the first render always makes it false and records the string
\* of its snapshot, whether the snapshot is empty (its string is then the
\* initial last known string), holds only excluded or empty-valued keys, or
\* restores a key; once false it stays false.
C27_FirstRenderClearedOnce ==
  [][/\ firstRender' # firstRender
          => /\ firstRender /\ ~firstRender'
             /\ lastOp' = "Effects" /\ rendered[1].cause = "mount"
     /\ (lastOp' = "Effects" /\ rendered[1].cause = "mount")
          => /\ firstRender /\ ~firstRender'
             /\ lastUrlParams' = searchParamsToString(seen)
             /\ (resetArg' # <<>>) = (RestoredKeys(seen) # {})
     /\ ~firstRender => ~firstRender']_vars

\* The state after the first render on a query string that holds only an
\* excluded key and an empty-valued key: nothing was restored, firstRender is
\* false and the first debounce timer is scheduled.
C27_Witness ==
  /\ lastOp = "Effects"
  /\ ~firstRender
  /\ seen = <<<<K_password, <<"y">>>>, <<K_name, <<>>>>>>
  /\ resetArg = <<>>
  /\ \E t \in timers : t.cause = "mount"

\* C28: at most one debounce timer is pending; the pending timer is the one
\* timeoutRef.current names and was scheduled by the latest render, so no
\* timer of an earlier render is left to fire; and a timer that fires is the
\* one timeoutRef.current names and leaves none pending.
C28_AtMostOneTimer ==
  /\ Cardinality(timers) <= 1
  /\ \A t \in timers : t.id = timeoutRef /\ (rendered = <<>> => t.params = seen)
  /\ lastOp = "TimerFire" => fired[1].id = timeoutRef /\ timers = {}

\* A render has cancelled the timer of the render before it and scheduled
\* its own.
C28_Witness ==
  /\ lastOp = "Effects"
  /\ cancelled = 1
  /\ Cardinality(timers) = 1

\* C29 as claimed: lastUrlParamsRef.current is the string of the committed
\* mapping, and so of the query string, right after a commit; it is the
\* string of the observed snapshot right after the effects of a render; and
\* once the first pass is over and it is the string of the query string, it
\* stays so through every step but an external change of the query string
\* (which awaits its pass).
C29_LastKnownIsCurrent ==
  [][/\ (lastOp' = "TimerFire" /\ sinkArg' # <<>>)
          => /\ lastUrlParams' = searchParamsToString(sinkArg'[1])
             /\ lastUrlParams' = searchParamsToString(url')
     /\ lastOp' = "Effects" => lastUrlParams' = searchParamsToString(seen)
     /\ (/\ ~firstRender
         /\ lastUrlParams = searchParamsToString(url)
         /\ lastOp' # "ExternalUrlChange")
          => lastUrlParams' = searchParamsToString(url')]_vars

\* C30 as claimed: a timer fire that commits has set lastUrlParamsRef.current
\* to the string of the mapping it passes when it calls setSearchParams, and
\* every hydration effect that runs while the call has not returned finds
\* lastUrlParamsRef.current equal to the string of the committed mapping,
\* which is the query string.
C30_LastKnownSetBeforeSink ==
  [][/\ (lastOp' = "TimerFire" /\ sinkArg' # <<>>)
          => /\ inSink'
             /\ lastUrlParams' = searchParamsToString(sinkArg'[1])
     /\ (inSink /\ lastOp' = "Effects")
          => lastUrlParams = searchParamsToString(url)]_vars

(***************************************************************************)
(* Properties of the short-circuits, the guard and quiescence              *)
(***************************************************************************)
\* The string of the working copy the callback of a timer builds.
WorkingString(t) ==
  searchParamsToString(BuildParams(t.params, t.values, ExcludeFields))

\* C31: a timer fire calls setSearchParams exactly when the string of its
\* working copy differs from lastUrlParamsRef.current; when the two are
\* equal the fire leaves lastUrlParamsRef, the query string, the form values,
\* firstRender and the guard as they are.
C31_CommitIffStringDiffers ==
  [][lastOp' = "TimerFire"
       => /\ (sinkArg' # <<>>) = (WorkingString(fired'[1]) # lastUrlParams)
          /\ sinkArg' # <<>> => sinkArg'[1] =
               BuildParams(fired'[1].params, fired'[1].values, ExcludeFields)
          /\ WorkingString(fired'[1]) = lastUrlParams
               => /\ lastUrlParams' = lastUrlParams
                  /\ url' = url
                  /\ form' = form
                  /\ firstRender' = firstRender
                  /\ isUpdatingFromUrl' = isUpdatingFromUrl]_vars

\* A fire on a non-empty query string whose working copy has the last known
\* string: the sink is not called.
C31_Witness ==
  /\ lastOp = "TimerFire"
  /\ sinkArg = <<>>
  /\ url # <<>>
  /\ WorkingString(fired[1]) = lastUrlParams
  /\ lastUrlParams = searchParamsToString(url)

\* C32 as claimed: the effects of a render after the first whose query
\* string has the last known string do not call reset, do not set the guard,
\* leave lastUrlParamsRef and the form as they are, and leave every pending
\* debounce timer pending: none is cancelled.
C32_UnchangedUrlIsNotHydrated ==
  [][(/\ lastOp' = "Effects"
      /\ ~firstRender
      /\ searchParamsToString(seen) = lastUrlParams)
       => /\ resetArg' = <<>>
          /\ isUpdatingFromUrl' = isUpdatingFromUrl
          /\ clearPending' = clearPending
          /\ lastUrlParams' = lastUrlParams
          /\ form' = form
          /\ cancelled' = 0
          /\ timers \subseteq timers']_vars

\* C33 as claimed: a render that brings a form change to the publication
\* effect while the guard is set, or on the first render, schedules no timer
\* and leaves a pending debounce timer pending.
C33_GuardedNotificationIsNoOp ==
  [][(/\ lastOp' = "Effects"
      /\ rendered[1].cause \in {"user", "reset"}
      /\ PublicationSkips(isUpdatingFromUrl', firstRender'))
       => /\ timers' = timers
          /\ timeoutRef' = timeoutRef]_vars

\* EffectsStep and TimerStep stand for RunEffects and LiveTimerFire: each is
\* enabled in the states its action is enabled in.
FairStepsEnabledAsActions ==
  /\ (ENABLED <<RunEffects>>_vars)
       <=> (ENABLED <<EffectsStep>>_<<lastOp, rendered>>)
  /\ (ENABLED <<LiveTimerFire>>_vars)
       <=> (ENABLED <<TimerStep>>_<<lastOp, timers>>)

\* EffectsStep and TimerStep stand for RunEffects and LiveTimerFire: each is
\* taken by the steps of its action.
FairStepsTakenAsActions ==
  [][/\ <<RunEffects>>_vars <=> <<EffectsStep>>_<<lastOp, rendered>>
     /\ <<LiveTimerFire>>_vars <=> <<TimerStep>>_<<lastOp, timers>>]_vars

\* C34: the guard is set only by a render whose hydration pass calls reset
\* with a non-empty mapping; while it is set the clear that pass queued is
\* pending; and whenever it is set it is cleared later, so it never stays
\* set for good.
C34_GuardSetByHydrationAndCleared ==
  /\ [][(isUpdatingFromUrl' /\ ~isUpdatingFromUrl)
          => /\ lastOp' = "Effects"
             /\ resetArg' # <<>>
             /\ resetArg'[1] # <<>>
             /\ clearPending']_vars
  /\ [](isUpdatingFromUrl => clearPending)
  /\ (isUpdatingFromUrl ~> ~isUpdatingFromUrl)

\* The guard is clear again after the second of two hydration passes that
\* applied values: the one of the mount and the one after a navigation.
C34_Witness ==
  /\ lastOp = "ClearGuard"
  /\ ~isUpdatingFromUrl
  /\ edits = 0
  /\ ObjectHas(form, K_name) /\ ObjectGet(form, K_name) = Str(<<"b">>)
  /\ ObjectHas(form, K_page)


\* C35: when a render has brought a change of the user to the publication
\* effect with the guard clear, so that a timer with the changed form values
\* is pending, then later a timer fires (its form values are those or later
\* ones) or the hook is unmounted.
C35_NoEditDropped ==
  (lastOp = "Effects" /\ \E t \in timers : t.cause = "user")
    ~> (lastOp = "TimerFire" \/ phase = "unmounted")

\* Nothing of the hook is left to run: the hook has been rendered and the
\* effects of its last render have run, no timer is pending, the guard is
\* clear with no clear queued, and the host has no reason to render (or the
\* hook is unmounted).
Quiescent ==
  /\ phase # "init"
  /\ rendered = <<>>
  /\ ~inSink
  /\ timers = {}
  /\ ~isUpdatingFromUrl
  /\ ~clearPending
  /\ phase = "mounted" => ~RenderNeeded

\* C36: once the user and the outside world have stopped, the hook comes to
\* rest: from some point on it stays quiescent, and no step calls
\* setSearchParams or reset any more.
C36_ComesToRest ==
  <>[](Quiescent /\ sinkArg = <<>> /\ resetArg = <<>>)

\* The hook at rest after a merge-reset (the form has the page of ?page=1)
\* and a commit (the query string has the name the user gave, which no
\* navigation of the model brings without a password).
C36_Witness ==
  /\ Quiescent
  /\ ObjectHas(form, K_page)
  /\ ParamsHas(url, K_page)
  /\ ParamsHas(url, K_name) /\ ParamsGet(url, K_name) = <<"b">>
  /\ ~ParamsHas(url, K_password)

\* C37: in the mapping a fire commits, every non-excluded field of the form
\* snapshot has exactly one pair, with its serialised value, when its value
\* is not empty and serialises to a non-empty string, whatever pairs the
\* snapshot of the URL had for it, and has no pair otherwise.
C37_OneEntryPerPublishedField ==
  (lastOp = "TimerFire" /\ sinkArg # <<>>) =>
    \A i \in 1..Len(fired[1].values) :
      LET field == fired[1].values[i][1]
          value == fired[1].values[i][2]
          entries == Len(PairsOf(sinkArg[1], field))
      IN field \notin ExcludeFields =>
           IF ~IsEmptyValue(value) /\ safeSerialize(value) # <<>>
           THEN /\ entries = 1
                /\ ParamsGet(sinkArg[1], field) = safeSerialize(value)
           ELSE entries = 0

\* A commit whose snapshot of the URL had two pairs for name: the mapping
\* has one, with the serialised value of the form.
C37_Witness ==
  /\ lastOp = "TimerFire"
  /\ sinkArg # <<>>
  /\ Len(PairsOf(fired[1].params, K_name)) = 2
  /\ ObjectHas(fired[1].values, K_name)
  /\ PairsOf(sinkArg[1], K_name)
       = <<<<K_name, safeSerialize(ObjectGet(fired[1].values, K_name))>>>>
  /\ Len(PairsOf(sinkArg[1], K_data)) < 2

RECURSIVE CarriesDangerousKey(_)
\* An object of the value, at any depth, has a dangerous key of its own.
CarriesDangerousKey(value) ==
  CASE value.t = "array" ->
         \E i \in 1..Len(value.items) : CarriesDangerousKey(value.items[i])
    [] value.t = "object" ->
         \/ HasDangerousKeys(value.entries)
         \/ \E i \in 1..Len(value.entries) :
              CarriesDangerousKey(value.entries[i][2])
    [] OTHER -> FALSE

\* C38: what hydration hands to reset for a query value JSON.parse accepts:
\* a parsed array or primitive as it was parsed, whatever its elements are;
\* of a parsed object, the value of every key that is not dangerous as it
\* was parsed, whatever it holds; and the whole parsed object as it was
\* parsed when none of its own keys is dangerous.
C38_OnlyTopLevelIsSanitized ==
  (lastOp = "Effects" /\ resetArg # <<>>) =>
    \A i \in 1..Len(seen) :
      (IsRestored(seen, i) /\ JsonParses(seen[i][2]))
        => LET parsed == JsonParse(seen[i][2])
               result == ObjectGet(resetArg[1], seen[i][1])
           IN /\ parsed.t # "object" => result = parsed
              /\ parsed.t = "object" =>
                   /\ result.t = "object"
                   /\ \A j \in 1..Len(parsed.entries) :
                        parsed.entries[j][1] \notin DangerousKeys
                          => /\ ObjectHas(result.entries, parsed.entries[j][1])
                             /\ ObjectGet(result.entries, parsed.entries[j][1])
                                  = parsed.entries[j][2]
                   /\ ~HasDangerousKeys(parsed.entries) => result = parsed

\* A pass that restored an object without a dangerous key of its own and an
\* array, each holding an object that has one.
C38_Witness ==
  /\ lastOp = "Effects"
  /\ resetArg # <<>>
  /\ ObjectHas(resetArg[1], K_data)
  /\ ObjectGet(resetArg[1], K_data).t = "object"
  /\ ~HasDangerousKeys(ObjectGet(resetArg[1], K_data).entries)
  /\ CarriesDangerousKey(ObjectGet(resetArg[1], K_data))
  /\ ObjectHas(resetArg[1], K_name)
  /\ ObjectGet(resetArg[1], K_name).t = "array"
  /\ CarriesDangerousKey(ObjectGet(resetArg[1], K_name))

\* Every non-excluded field of the form values is in the query string with
\* its serialised value when its value is not empty, and is not in the query
\* string when its value is empty or is serialised as the empty string.
FormAndUrlAgree(vals, params) ==
  \A i \in 1..Len(vals) :
    LET field == vals[i][1]
        value == vals[i][2]
    IN field \notin ExcludeFields =>
         IF IsEmptyValue(value) \/ safeSerialize(value) = <<>>
         THEN ~ParamsHas(params, field)
         ELSE /\ ParamsHas(params, field)
              /\ ParamsGet(params, field) = safeSerialize(value)

\* C39, as claimed: whenever the hook is mounted, past its first hydration and at rest
\* (no pending timer, guard clear, nothing left to render), every
\* non-excluded field of the form is in the query string with its
\* serialised value when its value is not empty, and is not in the query
\* string when its value is empty.
C39_FormAndUrlAgreeAtRest ==
  (phase = "mounted" /\ ~firstRender /\ Quiescent) => FormAndUrlAgree(form, url)

\* C39, amended: the form and the query string agree when a timer has just
\* fired that held the form values as they are now and whose snapshot of the
\* query string was the query string at the fire (neither the outside world
\* nor a commit of the hook has changed it since the render that scheduled
\* the timer).
C39_FormAndUrlAgreeAfterFire ==
  (lastOp = "TimerFire" /\ quiet = <<form>>)
    => FormAndUrlAgree(form, url)

\* A fire that committed the form values the user had edited: the name of
\* the query string it found is gone, or has the value of the form.
C39_Witness ==
  /\ lastOp = "TimerFire"
  /\ quiet = <<form>>
  /\ sinkArg # <<>>
  /\ edits > 0
  /\ ParamsHas(fired[1].params, K_name)
  /\ ParamsHas(url, K_page)

====
